---- MODULE Spec2Model ----
(***************************************************************************)
(* SnapChef: the LLM response recovery and normalization pipeline.         *)
(*                                                                         *)
(* A model response is a sequence of lexical units: the JSON punctuation   *)
(* characters, the space, the quote, the backslash, and words (a run of    *)
(* letters or digits that no pattern of the code looks inside).  The JSON  *)
(* decoder, the regular expressions and the bracket scanner of the source  *)
(* are operators over such sequences.                                      *)
(***************************************************************************)
EXTENDS Integers, Sequences, FiniteSets, TLC

VARIABLES
    doc,        \* the JSON document the model meant to send (Absent: none)
    style,      \* what it writes after each colon and comma
    D,          \* the full text the model would have sent
    response,   \* the text the model returned: D cut short, or wrapped in prose
    cut,        \* how many units of D were kept
    prefix,     \* prose before the JSON block
    suffix,     \* prose after the JSON block
    op,         \* the function that was called on the response
    outcome,    \* how the model call went: "none", "no_client", "raises", "text"
    ret,        \* what the function returned
    memo,       \* the entries st.cache_data holds for the memoized function
    clock,      \* the time, in seconds
    done,       \* for each pair of arguments, when the model last answered it
    call,       \* the last call of the memoized function
    history,    \* the calls of the post-processing functions so far
    request,    \* the request POST /analyze_fridge_image received
    provider,   \* how the model provider answered the proxy server
    reply,      \* what the endpoint sent back
    api_thread, \* the worker thread of the camera page
    result_queue,   \* the queue between the worker and the page
    page,       \* where the script of the camera page is
    progress_value, \* the progress bar of the camera page
    page_result,    \* `result` of the camera page: what it took from the queue
    device_tracking,    \* st.session_state.device_tracking
    decrement   \* the last call of decrement_free_use

responseVars == <<doc, style, D, response, cut, prefix, suffix, op, outcome, ret>>
cacheVars == <<memo, clock, done, call>>
serverVars == <<request, provider, reply>>
pageVars == <<api_thread, result_queue, page, progress_value, page_result>>
deviceVars == <<device_tracking, decrement>>

vars == <<responseVars, cacheVars, history, serverVars, pageVars, deviceVars>>

-----------------------------------------------------------------------------
(* Lexical units *)

Q == "\""
BS == "\\"
SP == " "

MaxIngredients == 2
MaxRecipes == 2
MaxClock == 7200
TickSeconds == 1800

-----------------------------------------------------------------------------
(* Python values.  Every value is a record of the same shape, so that any  *)
(* two can be compared: t is the type, s the text of a scalar, items the   *)
(* elements of a list or the key, value, key, value ... of a dict.         *)

Val(t, s, items) == [t |-> t, s |-> s, items |-> items]
Absent == Val("absent", <<>>, <<>>)
None == Val("lit", <<"null">>, <<>>)
PyTrue == Val("lit", <<"true">>, <<>>)
PyFalse == Val("lit", <<"false">>, <<>>)
Str(s) == Val("str", s, <<>>)
Num(w) == Val("num", <<w>>, <<>>)
List(items) == Val("list", <<>>, items)
Dict(kv) == Val("dict", <<>>, kv)
EmptyList == List(<<>>)
EmptyDict == Dict(<<>>)

Digits == {"0", "1", "2", "3", "4", "5", "6", "7", "8", "9"}
NumWord == <<"1", "2", "3", "4", "5", "6", "7", "8", "9", "10",
            "11", "12", "13", "14", "15", "16", "17", "18", "19", "20",
            "21", "22", "23", "24", "25", "26", "27", "28", "29", "30">>
\* the number words a JSON text of the model holds
Numerals == Digits \cup {NumWord[n] : n \in 1..Len(NumWord)} \cup {"400"}
\* the int n as a value
PyInt(n) == IF n = 0 THEN Num("0") ELSE Num(NumWord[n])

RECURSIVE GetFrom(_, _, _, _)
GetFrom(kv, key, default, i) ==
    IF i < 1 THEN default
    ELSE IF kv[i] = Str(<<key>>) THEN kv[i + 1]
    ELSE GetFrom(kv, key, default, i - 2)

\* dict.get(key, default): of a repeated key the decoder keeps the last value
Get(d, key, default) == GetFrom(d.items, key, default, Len(d.items) - 1)

HasKey(d, key) == Get(d, key, Absent) # Absent

\* Python truth value: None, False, 0, "", [] and {} are false
Truthy(v) ==
    CASE v.t = "absent" -> FALSE
      [] v.t = "lit" -> v = PyTrue
      [] v.t = "num" -> v.s # <<"0">>
      [] v.t = "str" -> v.s # <<>>
      [] OTHER -> v.items # <<>>

-----------------------------------------------------------------------------
(* json.loads *)

NoParse == [ok |-> FALSE, val |-> Absent, next |-> 0]
Parsed(v, n) == [ok |-> TRUE, val |-> v, next |-> n]

RECURSIVE SkipWs(_, _)
SkipWs(s, i) == IF i <= Len(s) /\ s[i] = SP THEN SkipWs(s, i + 1) ELSE i

\* the string whose opening quote is at i - 1: acc is its decoded content
RECURSIVE ParseStringFrom(_, _, _)
ParseStringFrom(s, i, acc) ==
    IF i > Len(s) THEN NoParse
    ELSE IF s[i] = Q THEN Parsed(Str(acc), i + 1)
    ELSE IF s[i] = BS
         THEN IF i + 1 <= Len(s) /\ s[i + 1] \in {Q, BS}
              THEN ParseStringFrom(s, i + 2, Append(acc, s[i + 1]))
              ELSE NoParse
    ELSE ParseStringFrom(s, i + 1, Append(acc, s[i]))

RECURSIVE ParseValue(_, _)
RECURSIVE ParseElems(_, _, _)
RECURSIVE ParseMembers(_, _, _)

ParseValue(s, i) ==
    IF i > Len(s) THEN NoParse
    ELSE CASE s[i] = "{" ->
                LET k == SkipWs(s, i + 1)
                IN  IF k <= Len(s) /\ s[k] = "}" THEN Parsed(EmptyDict, k + 1)
                    ELSE ParseMembers(s, k, <<>>)
           [] s[i] = "[" ->
                LET k == SkipWs(s, i + 1)
                IN  IF k <= Len(s) /\ s[k] = "]" THEN Parsed(EmptyList, k + 1)
                    ELSE ParseElems(s, k, <<>>)
           [] s[i] = Q -> ParseStringFrom(s, i + 1, <<>>)
           [] s[i] \in {"true", "false", "null"} -> Parsed(Val("lit", <<s[i]>>, <<>>), i + 1)
           [] s[i] \in Numerals -> Parsed(Num(s[i]), i + 1)
           [] OTHER -> NoParse

\* the elements of a list from i on, up to its closing bracket
ParseElems(s, i, acc) ==
    LET r == ParseValue(s, i)
        k == SkipWs(s, r.next)
    IN  IF ~r.ok \/ k > Len(s) THEN NoParse
        ELSE IF s[k] = "," THEN ParseElems(s, SkipWs(s, k + 1), Append(acc, r.val))
        ELSE IF s[k] = "]" THEN Parsed(List(Append(acc, r.val)), k + 1)
        ELSE NoParse

\* the members of a dict from i on, up to its closing brace
ParseMembers(s, i, acc) ==
    IF i > Len(s) \/ s[i] # Q THEN NoParse
    ELSE LET key == ParseStringFrom(s, i + 1, <<>>)
             c == SkipWs(s, key.next)
         IN  IF ~key.ok \/ c > Len(s) \/ s[c] # ":" THEN NoParse
             ELSE LET r == ParseValue(s, SkipWs(s, c + 1))
                      k == SkipWs(s, r.next)
                  IN  IF ~r.ok \/ k > Len(s) THEN NoParse
                      ELSE IF s[k] = ","
                           THEN ParseMembers(s, SkipWs(s, k + 1), acc \o <<key.val, r.val>>)
                      ELSE IF s[k] = "}"
                           THEN Parsed(Dict(acc \o <<key.val, r.val>>), k + 1)
                      ELSE NoParse

\* json.loads(s): ok is FALSE where the decoder raises JSONDecodeError
JsonLoads(s) ==
    LET r == ParseValue(s, SkipWs(s, 1))
    IN  IF r.ok /\ SkipWs(s, r.next) > Len(s) THEN r ELSE NoParse

-----------------------------------------------------------------------------
(* The texts a model sends: documents of the shape the prompt asks for,    *)
(* written with or without a space after each colon and comma.             *)

RECURSIVE Escaped(_)
Escaped(content) ==
    IF content = <<>> THEN <<>>
    ELSE (IF Head(content) \in {Q, BS} THEN <<BS, Head(content)>> ELSE <<Head(content)>>)
         \o Escaped(Tail(content))

RECURSIVE Dumps(_, _)
RECURSIVE DumpItems(_, _, _, _)

\* json.dumps(v) with separators ("," \o sep, ":" \o sep)
Dumps(v, sep) ==
    CASE v.t = "str" -> <<Q>> \o Escaped(v.s) \o <<Q>>
      [] v.t = "list" -> <<"[">> \o DumpItems(v.items, sep, 1, FALSE) \o <<"]">>
      [] v.t = "dict" -> <<"{">> \o DumpItems(v.items, sep, 1, TRUE) \o <<"}">>
      [] OTHER -> v.s

DumpItems(items, sep, i, isDict) ==
    IF i > Len(items) THEN <<>>
    ELSE Dumps(items[i], sep)
         \o (IF isDict /\ i % 2 = 1 THEN <<":">> \o sep
             ELSE IF i < Len(items) THEN <<",">> \o sep
             ELSE <<>>)
         \o DumpItems(items, sep, i + 1, isDict)

Key(k) == Str(<<k>>)

IngredientNames == <<"eggs", "milk", "rice", "salt">>
RecipeNames == <<"omelette", "pudding", "risotto", "soup", "stew", "salad", "curry">>

\* an ingredient as the prompt describes it; the "noted" one carries a quote
\* and a bracket inside a string
IngredientItem(i, shape) ==
    IF shape = "plain" THEN Dict(<<Key("name"), Key(IngredientNames[i])>>)
    ELSE Dict(<<Key("name"), Key(IngredientNames[i]),
                Key("location"), Str(<<"door", Q, "]">>)>>)

\* a recipe: flat, or with the nested ingredients_used list of the prompt
RecipeItem(i, shape) ==
    IF shape = "flat"
    THEN Dict(<<Key("name"), Key(RecipeNames[i]), Key("servings"), Num("2")>>)
    ELSE Dict(<<Key("name"), Key(RecipeNames[i]),
                Key("ingredients_used"),
                List(<<Dict(<<Key("name"), Key("eggs"), Key("amount"), Key("2")>>)>>)>>)

IngredientLists ==
    {List([i \in 1..n |-> IngredientItem(i, IF i = n THEN shape ELSE "plain")]) :
        n \in 0..MaxIngredients, shape \in {"plain", "noted"}}

RecipeLists ==
    {List([i \in 1..n |-> RecipeItem(i, shape)]) :
        n \in 0..MaxRecipes, shape \in {"flat", "nested"}}

ImageAnalyses ==
    {Absent,
     Dict(<<Key("is_food_image"), PyTrue>>),
     Dict(<<Key("is_food_image"), PyFalse>>)}

\* the combined response: image_analysis, ingredients, recipes, in that order
CombinedDoc(ia, ings, recs) ==
    Dict((IF ia = Absent THEN <<>> ELSE <<Key("image_analysis"), ia>>)
         \o <<Key("ingredients"), ings, Key("recipes"), recs>>)

CombinedDocs ==
    {CombinedDoc(ia, ings, recs) :
        ia \in ImageAnalyses, ings \in IngredientLists, recs \in RecipeLists}

Separators == {<<SP>>, <<>>}

-----------------------------------------------------------------------------
(* What the functions return.  A returned dict has the keys that are not   *)
(* Absent; kind "raise" is an exception leaving the function.              *)

Ret(kind, exc, ingredients, recipes, image_analysis, raw_response, error, confidence, total_items) ==
    [kind |-> kind, exc |-> exc, ingredients |-> ingredients, recipes |-> recipes,
     image_analysis |-> image_analysis, raw_response |-> raw_response, error |-> error,
     confidence |-> confidence, total_items |-> total_items, value |-> Absent]

NoRet == Ret("none", "", Absent, Absent, Absent, Absent, Absent, Absent, Absent)
Raise(exc) == Ret("raise", exc, Absent, Absent, Absent, Absent, Absent, Absent, Absent)
\* a function returning a list, or a dict whose keys the data decides, or None
Value(v) == [NoRet EXCEPT !.kind = "value", !.value = v]

\* the dict both parse_combined_response build from the decoded data
CombinedResult(ingredients, recipes, image_analysis, text) ==
    Ret("dict", "", ingredients, recipes, image_analysis, Str(text), Absent, Absent, Absent)

FieldsOf(data, text) ==
    CombinedResult(Get(data, "ingredients", EmptyList), Get(data, "recipes", EmptyList),
                   Get(data, "image_analysis", EmptyDict), text)

FailedToParse == Str(<<"Failed to parse response">>)

FailureMarker(text) ==
    CombinedResult(EmptyList, EmptyList, Dict(<<Key("error"), FailedToParse>>), text)

-----------------------------------------------------------------------------
(* str.find and the regular expressions; an index of 0 is "not found" *)

RECURSIVE Find(_, _, _)
Find(s, pat, from) ==
    IF from + Len(pat) - 1 > Len(s) THEN 0
    ELSE IF SubSeq(s, from, from + Len(pat) - 1) = pat THEN from
    ELSE Find(s, pat, from + 1)

RECURSIVE RFind(_, _, _)
RFind(s, unit, from) ==
    IF from < 1 THEN 0
    ELSE IF s[from] = unit THEN from
    ELSE RFind(s, unit, from - 1)

NoMatch == [found |-> FALSE, text |-> <<>>]
Match(text) == [found |-> TRUE, text |-> text]

\* the pattern written lazily, r'\{.*?\}': it stops at the first }
ScopedMatchLazy(s) ==
    LET first == Find(s, <<"{">>, 1)
        close == Find(s, <<"}">>, first + 1)
    IN  IF first > 0 /\ close > first THEN Match(SubSeq(s, first, close)) ELSE NoMatch

\* re.search(r'\{.*\}', s, re.DOTALL): from the first { to the last } after it
ScopedMatch(s) ==
    LET first == Find(s, <<"{">>, 1)
        last == RFind(s, "}", Len(s))
    IN  IF first > 0 /\ last > first THEN Match(SubSeq(s, first, last)) ELSE NoMatch

AnalysisPat == <<Q, "image_analysis", Q, ":">>

\* re.search(r'"image_analysis":\s*({[^}]+})', s): group 1
RECURSIVE AnalysisMatch(_, _)
AnalysisMatch(s, from) ==
    LET i == Find(s, AnalysisPat, from)
        open == SkipWs(s, i + Len(AnalysisPat))
        close == Find(s, <<"}">>, open + 1)
    IN  IF i = 0 THEN NoMatch
        ELSE IF open <= Len(s) /\ s[open] = "{" /\ close > open + 1
             THEN Match(SubSeq(s, open, close))
        ELSE AnalysisMatch(s, i + 1)

NamePat == <<Q, "name", Q, ":">>

\* r'\{[^{]*?"name":[^}]+?\}' tried at the { at p: the index of the } that ends
\* the match, for the first "name": at q or later that [^{]*? can reach
RECURSIVE RecipeMatchEnd(_, _, _)
RecipeMatchEnd(s, p, q) ==
    LET n == Find(s, NamePat, q)
        brace == Find(s, <<"{">>, p + 1)
        t == n + Len(NamePat)
        close == Find(s, <<"}">>, t + 1)
    IN  IF n = 0 \/ (brace > 0 /\ brace < n) THEN 0
        ELSE IF t <= Len(s) /\ s[t] # "}" /\ close > 0 THEN close
        ELSE RecipeMatchEnd(s, p, n + 1)

\* re.findall(r'\{[^{]*?"name":[^}]+?\}', s) from index `from` on
RECURSIVE RecipeMatches(_, _)
RecipeMatches(s, from) ==
    LET p == Find(s, <<"{">>, from)
        e == RecipeMatchEnd(s, p, p + 1)
    IN  IF p = 0 THEN <<>>
        ELSE IF e > 0 THEN <<SubSeq(s, p, e)>> \o RecipeMatches(s, e + 1)
        ELSE RecipeMatches(s, p + 1)

-----------------------------------------------------------------------------
(* parse_combined_response, as the pipeline imports it (prompts/) *)

\* an extraction that tries the salvage before the strict and the scoped parse
SalvageFirst(text, otherwise) ==
    LET data == JsonLoads(text)
        json_match == ScopedMatch(text)
        scoped == JsonLoads(json_match.text)
    IN  IF otherwise # FailureMarker(text) THEN otherwise
        ELSE IF data.ok
        THEN IF data.val.t = "dict" THEN FieldsOf(data.val, text)
             ELSE Raise("AttributeError")
        ELSE IF json_match.found /\ scoped.ok THEN FieldsOf(scoped.val, text)
        ELSE otherwise

\* steps 1 and 2, which the two versions share; `otherwise` is what follows
\* a failed scoped parse
StrictThenScoped(text, otherwise) ==
    LET data == JsonLoads(text)
        json_match == ScopedMatch(text)
        scoped == JsonLoads(json_match.text)
    IN  IF data.ok
        THEN IF data.val.t = "dict" THEN FieldsOf(data.val, text)
             ELSE Raise("AttributeError")     \* data.get of a list, str, int, None
        ELSE IF json_match.found /\ scoped.ok THEN FieldsOf(scoped.val, text)
        ELSE otherwise

parse_combined_response(text) == StrictThenScoped(text, FailureMarker(text))

-----------------------------------------------------------------------------
(* parse_combined_response of webapp-archive/, with the salvage of a       *)
(* truncated response                                                      *)

IngredientsPat == <<Q, "ingredients", Q, ":", SP, "[">>
RecipesPat == <<Q, "recipes", Q, ":", SP, "[">>
RecipeLimit == 5

\* a scanner that stops at the first ] outside a string
RECURSIVE ScanFirstClose(_, _, _, _, _)
ScanFirstClose(s, i, bracket_count, in_string, escape_next) ==
    IF i > Len(s) THEN 0
    ELSE IF escape_next THEN ScanFirstClose(s, i + 1, bracket_count, in_string, FALSE)
    ELSE IF s[i] = BS THEN ScanFirstClose(s, i + 1, bracket_count, in_string, TRUE)
    ELSE IF s[i] = Q THEN ScanFirstClose(s, i + 1, bracket_count, ~in_string, FALSE)
    ELSE IF ~in_string /\ s[i] = "]" THEN i
    ELSE ScanFirstClose(s, i + 1, bracket_count, in_string, FALSE)

\* the while loop: the index of the ] that closes the ingredients array
RECURSIVE ScanIngredientsEnd(_, _, _, _, _)
ScanIngredientsEnd(s, i, bracket_count, in_string, escape_next) ==
    IF i > Len(s) THEN 0
    ELSE IF escape_next THEN ScanIngredientsEnd(s, i + 1, bracket_count, in_string, FALSE)
    ELSE IF s[i] = BS THEN ScanIngredientsEnd(s, i + 1, bracket_count, in_string, TRUE)
    ELSE IF s[i] = Q THEN ScanIngredientsEnd(s, i + 1, bracket_count, ~in_string, FALSE)
    ELSE IF ~in_string /\ s[i] = "["
         THEN ScanIngredientsEnd(s, i + 1, bracket_count + 1, in_string, FALSE)
    ELSE IF ~in_string /\ s[i] = "]"
         THEN IF bracket_count = 0 THEN i
              ELSE ScanIngredientsEnd(s, i + 1, bracket_count - 1, in_string, FALSE)
    ELSE ScanIngredientsEnd(s, i + 1, bracket_count, in_string, FALSE)

\* the for loop over recipe_matches[:5]: the matches that decode to a dict
\* with a name
RECURSIVE CompleteRecipes(_, _)
CompleteRecipes(matches, k) ==
    IF k > Len(matches) \/ k > RecipeLimit THEN <<>>
    ELSE LET recipe == JsonLoads(matches[k])
         IN  (IF recipe.ok /\ HasKey(recipe.val, "name") THEN <<recipe.val>> ELSE <<>>)
             \o CompleteRecipes(matches, k + 1)

SalvagedRecipes(text, ingredients_end) ==
    LET recipes_start == Find(text, RecipesPat, 1)
    IN  IF recipes_start > 0 /\ recipes_start > ingredients_end
        THEN List(CompleteRecipes(
                 RecipeMatches(SubSeq(text, recipes_start, Len(text)), 1), 1))
        ELSE EmptyList

SalvagedAnalysis(text) ==
    LET analysis_match == AnalysisMatch(text, 1)
        decoded == JsonLoads(analysis_match.text)
    IN  IF analysis_match.found /\ decoded.ok THEN decoded.val ELSE EmptyDict

\* step 3
SalvageTruncated(text) ==
    LET ingredients_start == Find(text, IngredientsPat, 1)
        ingredients_end ==
            ScanIngredientsEnd(text, ingredients_start + Len(IngredientsPat), 0, FALSE, FALSE)
        ingredients ==
            JsonLoads(SubSeq(text, ingredients_start + Len(IngredientsPat) - 1, ingredients_end))
    IN  IF ingredients_start > 0 /\ ingredients_end > 0 /\ ingredients.ok
        THEN CombinedResult(ingredients.val, SalvagedRecipes(text, ingredients_end),
                            SalvagedAnalysis(text), text)
        ELSE FailureMarker(text)

parse_combined_response_archive(text) == StrictThenScoped(text, SalvageTruncated(text))

-----------------------------------------------------------------------------
(* validate_ingredient_response (prompts/grok_prompts.py) *)

RECURSIVE FirstBrace(_, _)
FirstBrace(s, from) ==
    IF from > Len(s) THEN 0
    ELSE IF s[from] \in {"{", "}"} THEN from
    ELSE FirstBrace(s, from + 1)

\* r'\{[^{}]*"ingredients"\s*:\s*\[[^\]]*\][^{}]*\}' tried at the { at p, with
\* "ingredients" at q: the index of the closing }, or 0
IngredientMatchEnd(s, p, q) ==
    LET colon == SkipWs(s, q + 3)
        open == SkipWs(s, colon + 1)
        close == Find(s, <<"]">>, open + 1)
        e == FirstBrace(s, close + 1)
    IN  IF /\ q + 2 <= Len(s)
           /\ SubSeq(s, q, q + 2) = <<Q, "ingredients", Q>>
           /\ colon <= Len(s) /\ s[colon] = ":"
           /\ open <= Len(s) /\ s[open] = "["
           /\ close > 0
           /\ e > 0 /\ s[e] = "}"
        THEN e
        ELSE 0

\* the greedy [^{}]* gives up one character at a time: the last q that matches
RECURSIVE IngredientMatchFrom(_, _, _)
IngredientMatchFrom(s, p, q) ==
    IF q <= p THEN 0
    ELSE IF IngredientMatchEnd(s, p, q) > 0 THEN IngredientMatchEnd(s, p, q)
    ELSE IngredientMatchFrom(s, p, q - 1)

\* re.search of that pattern: the leftmost { with a match
RECURSIVE IngredientSearch(_, _)
IngredientSearch(s, from) ==
    LET p == Find(s, <<"{">>, from)
        brace == FirstBrace(s, p + 1)
        e == IngredientMatchFrom(s, p, (IF brace = 0 THEN Len(s) + 1 ELSE brace) - 1)
    IN  IF p = 0 THEN NoMatch
        ELSE IF e > 0 THEN Match(SubSeq(s, p, e))
        ELSE IngredientSearch(s, p + 1)

\* str(x)
PyStr(v) ==
    CASE v.t = "str" -> v
      [] v.t = "num" -> Str(v.s)
      [] v = None -> Str(<<"None">>)
      [] v = PyTrue -> Str(<<"True">>)
      [] v = PyFalse -> Str(<<"False">>)
      [] OTHER -> Str(<<"repr">> \o Dumps(v, <<SP>>))

EmptyStr == Str(<<>>)

\* the for loop over data['ingredients']: ok is FALSE where ing.get raises
RECURSIVE SimplerIngredients(_, _, _)
SimplerIngredients(ings, i, acc) ==
    IF i > Len(ings) THEN [ok |-> TRUE, list |-> acc]
    ELSE IF ings[i].t # "dict" THEN [ok |-> FALSE, list |-> <<>>]
    ELSE IF Truthy(Get(ings[i], "name", None))
         THEN SimplerIngredients(ings, i + 1, Append(acc,
                Dict(<<Key("name"), Get(ings[i], "name", EmptyStr),
                       Key("quantity"), PyStr(Get(ings[i], "estimated_quantity", EmptyStr)),
                       Key("unit"), Get(ings[i], "unit", EmptyStr),
                       Key("category"), Get(ings[i], "category", Key("other"))>>)))
    ELSE SimplerIngredients(ings, i + 1, acc)

\* returns the dict {ingredients, confidence, total_items}, or None
validate_ingredient_response(text) ==
    LET json_match == IngredientSearch(text, 1)
        data == JsonLoads(json_match.text)
        ingredients == SimplerIngredients(Get(data.val, "ingredients", EmptyList).items, 1, <<>>)
    IN  IF /\ json_match.found
           /\ data.ok
           /\ \A key \in {"ingredients", "total_items", "detection_confidence"} :
                  HasKey(data.val, key)
           /\ ingredients.ok
        THEN Dict(<<Key("ingredients"), List(ingredients.list),
                    Key("confidence"), Get(data.val, "detection_confidence", Key("low")),
                    Key("total_items"), PyInt(Len(ingredients.list))>>)
        ELSE None

-----------------------------------------------------------------------------
(* validate_recipe_response (prompts/grok_prompts.py) *)

RECURSIVE FirstBracket(_, _)
FirstBracket(s, from) ==
    IF from > Len(s) THEN 0
    ELSE IF s[from] \in {"[", "]"} THEN from
    ELSE FirstBracket(s, from + 1)

\* r'\{[^{}]*"recipes"\s*:\s*\[[^\]]+\][^{}]*\}' tried at the { at p, with
\* "recipes" at q: the index of the closing }, or 0
BatchMatchEnd(s, p, q) ==
    LET colon == SkipWs(s, q + 3)
        open == SkipWs(s, colon + 1)
        close == Find(s, <<"]">>, open + 1)
        e == FirstBrace(s, close + 1)
    IN  IF /\ q + 2 <= Len(s)
           /\ SubSeq(s, q, q + 2) = <<Q, "recipes", Q>>
           /\ colon <= Len(s) /\ s[colon] = ":"
           /\ open <= Len(s) /\ s[open] = "["
           /\ close > open + 1
           /\ e > 0 /\ s[e] = "}"
        THEN e
        ELSE 0

RECURSIVE BatchMatchFrom(_, _, _)
BatchMatchFrom(s, p, q) ==
    IF q <= p THEN 0
    ELSE IF BatchMatchEnd(s, p, q) > 0 THEN BatchMatchEnd(s, p, q)
    ELSE BatchMatchFrom(s, p, q - 1)

\* r'\[[^\[\]]*\{[^{}]+\}[^\[\]]*\]' tried at the [ at p, with its { at j: the
\* index of the closing ], or 0
ArrayMatchEnd(s, p, j) ==
    LET k == FirstBrace(s, j + 1)
        e == FirstBracket(s, k + 1)
    IN  IF /\ s[j] = "{"
           /\ k > j + 1 /\ s[k] = "}"
           /\ e > 0 /\ s[e] = "]"
        THEN e
        ELSE 0

RECURSIVE ArrayMatchFrom(_, _, _)
ArrayMatchFrom(s, p, j) ==
    IF j <= p THEN 0
    ELSE IF ArrayMatchEnd(s, p, j) > 0 THEN ArrayMatchEnd(s, p, j)
    ELSE ArrayMatchFrom(s, p, j - 1)

\* the first { or [ from `from` on
RECURSIVE FirstOpener(_, _)
FirstOpener(s, from) ==
    IF from > Len(s) THEN 0
    ELSE IF s[from] \in {"{", "["} THEN from
    ELSE FirstOpener(s, from + 1)

\* re.search of the two alternatives: the leftmost position with a match
RECURSIVE RecipeSearch(_, _)
RecipeSearch(s, from) ==
    LET p == FirstOpener(s, from)
        brace == FirstBrace(s, p + 1)
        bracket == FirstBracket(s, p + 1)
        e == IF s[p] = "{"
             THEN BatchMatchFrom(s, p, (IF brace = 0 THEN Len(s) + 1 ELSE brace) - 1)
             ELSE ArrayMatchFrom(s, p, (IF bracket = 0 THEN Len(s) + 1 ELSE bracket) - 1)
    IN  IF p = 0 THEN NoMatch
        ELSE IF e > 0 THEN Match(SubSeq(s, p, e))
        ELSE RecipeSearch(s, p + 1)

\* [inst.get('instruction', '') for inst in instructions]: ok is FALSE where
\* inst.get raises
RECURSIVE InstructionTexts(_, _, _)
InstructionTexts(instructions, i, acc) ==
    IF i > Len(instructions) THEN [ok |-> TRUE, list |-> acc]
    ELSE IF instructions[i].t # "dict" THEN [ok |-> FALSE, list |-> <<>>]
    ELSE InstructionTexts(instructions, i + 1,
                          Append(acc, Get(instructions[i], "instruction", EmptyStr)))

\* instruction_list: only the first step decides between the two formats
InstructionList(recipe) ==
    LET instructions == Get(recipe, "instructions", EmptyList)
    IN  IF instructions.t = "list" /\ Len(instructions.items) > 0
        THEN IF instructions.items[1].t = "dict"
             THEN InstructionTexts(instructions.items, 1, <<>>)
             ELSE [ok |-> TRUE, list |-> instructions.items]
        ELSE [ok |-> TRUE, list |-> <<>>]

DefaultTotalTime == 30
DefaultPrepTime == 10
DefaultCookTime == 20
DefaultServings == 4

ShareCaption(name) ==
    Str(<<"Just made ">> \o PyStr(name).s \o <<"! #SnapChefChallenge">>)

\* formatted_recipe, given the instruction list and the nutrition dict
FormattedRecipe(recipe, instruction_list, nutrition) ==
    Dict(<<Key("name"), Get(recipe, "name", Key("Untitled Recipe")),
           Key("description"), Get(recipe, "description", EmptyStr),
           Key("main_dish"), Get(recipe, "main_dish", Get(recipe, "name", EmptyStr)),
           Key("side_dish"), Get(recipe, "side_dish", EmptyStr),
           Key("total_time"), Get(recipe, "total_time", PyInt(DefaultTotalTime)),
           Key("prep_time"), Get(recipe, "prep_time", PyInt(DefaultPrepTime)),
           Key("cook_time"), Get(recipe, "cook_time", PyInt(DefaultCookTime)),
           Key("servings"), Get(recipe, "servings", PyInt(DefaultServings)),
           Key("difficulty"), Get(recipe, "difficulty", Key("medium")),
           Key("ingredients_used"),
               Get(recipe, "ingredients_used", Get(recipe, "ingredients", EmptyList)),
           Key("instructions"), List(instruction_list),
           Key("nutrition"),
               Dict(<<Key("calories"),
                          Get(nutrition, "calories", Get(nutrition, "calories_per_serving", PyInt(0))),
                      Key("protein"), Get(nutrition, "protein_g", Get(nutrition, "protein", PyInt(0))),
                      Key("carbs"), Get(nutrition, "carbs_g", Get(nutrition, "carbs", PyInt(0))),
                      Key("fat"), Get(nutrition, "fat_g", Get(nutrition, "fat", PyInt(0)))>>),
           Key("tips"), Get(recipe, "tips", Get(recipe, "tip", EmptyStr)),
           Key("tags"), Get(recipe, "tags", EmptyList),
           Key("share_caption"),
               Get(recipe, "share_caption",
                   ShareCaption(Get(recipe, "name", Key("this amazing dish"))))>>)

MaxFormatted == 5

\* the for loop over recipes[:5]: ok is FALSE where a .get raises
RECURSIVE FormattedRecipes(_, _, _)
FormattedRecipes(recipes, i, acc) ==
    IF i > Len(recipes) \/ i > MaxFormatted THEN [ok |-> TRUE, list |-> acc]
    ELSE IF recipes[i].t # "dict" THEN [ok |-> FALSE, list |-> <<>>]
    ELSE LET instruction_list == InstructionList(recipes[i])
             nutrition == Get(recipes[i], "nutrition_info",
                              Get(recipes[i], "nutrition", EmptyDict))
         IN  IF ~instruction_list.ok \/ nutrition.t # "dict"
             THEN [ok |-> FALSE, list |-> <<>>]
             ELSE FormattedRecipes(recipes, i + 1,
                      Append(acc, FormattedRecipe(recipes[i], instruction_list.list, nutrition)))

\* returns the list of formatted recipes, or None
validate_recipe_response(text) ==
    LET json_match == RecipeSearch(text, 1)
        data == JsonLoads(json_match.text)
        recipes == IF data.val.t = "dict" THEN Get(data.val, "recipes", Absent) ELSE data.val
        formatted_recipes == FormattedRecipes(recipes.items, 1, <<>>)
    IN  IF /\ json_match.found
           /\ data.ok
           /\ \/ data.val.t = "dict" /\ HasKey(data.val, "recipes")
              \/ data.val.t = "list"
           /\ recipes.t = "list"
           /\ formatted_recipes.ok
           /\ Len(formatted_recipes.list) > 0
        THEN List(formatted_recipes.list)
        ELSE None

-----------------------------------------------------------------------------
(* detect_ingredients and analyze_fridge_and_generate_recipes (utils/api.py) *)

ApiKeyNotConfigured == Str(<<"API key not configured. Please set up your XAI_API_KEY.">>)
NoFoodInImage ==
    Str(<<"No food ingredients detected in the image. Please take a photo of your fridge, pantry, or kitchen ingredients.">>)
FailedToAnalyze == Str(<<"Failed to analyze the image. Please try again with a clearer photo.">>)
NoFoodDetected ==
    Str(<<"No food ingredients detected. Please take a photo of your fridge, pantry, or kitchen ingredients.">>)
ErrorAnalyzing(e) == Str(<<"Error analyzing image: ", e>>)

\* what the model client raises when the call fails
UpstreamError == "Connection error."

DetectionResult(ingredients, error, confidence, total_items) ==
    Ret("dict", "", ingredients, Absent, Absent, Absent, error, confidence, total_items)

detect_ingredients(how, content) ==
    IF how = "no_client"
    THEN DetectionResult(EmptyList, ApiKeyNotConfigured, Key("none"), Absent)
    ELSE IF how = "raises"
    THEN DetectionResult(EmptyList, ErrorAnalyzing(UpstreamError), Key("none"), Absent)
    ELSE LET result == validate_ingredient_response(content)
         IN  IF Truthy(result)
             THEN IF Len(Get(result, "ingredients", EmptyList).items) = 0
                  THEN DetectionResult(EmptyList, NoFoodInImage,
                                       Get(result, "confidence", Key("low")), Absent)
                  ELSE DetectionResult(Get(result, "ingredients", EmptyList), Absent,
                                       Get(result, "confidence", Key("medium")),
                                       Get(result, "total_items", Absent))
             ELSE DetectionResult(EmptyList, FailedToAnalyze, Key("low"), Absent)

ErrorResult(error) ==
    Ret("dict", "", EmptyList, EmptyList, Absent, Absent, error, Absent, Absent)

\* the check written with `or`: either signal alone rejects the result
CheckValidDataEither(result) ==
    IF ~Truthy(result.ingredients) THEN ErrorResult(NoFoodDetected)
    ELSE IF result.image_analysis.t # "dict" THEN ErrorResult(ErrorAnalyzing("AttributeError"))
    ELSE IF ~Truthy(Get(result.image_analysis, "is_food_image", PyTrue))
         THEN ErrorResult(NoFoodDetected)
    ELSE result

\* the check setting result["error"] on the parsed result instead of
\* returning a fresh dict
CheckValidDataInPlace(result) ==
    IF Truthy(result.ingredients) THEN result
    ELSE IF result.image_analysis.t # "dict" THEN ErrorResult(ErrorAnalyzing("AttributeError"))
    ELSE IF ~Truthy(Get(result.image_analysis, "is_food_image", PyTrue))
         THEN [result EXCEPT !.error = NoFoodDetected]
    ELSE result

\* the check after parse_combined_response: the detection-failure dict, the
\* parsed result itself, or the dict of the except clause when a .get raises
CheckValidData(result) ==
    IF Truthy(result.ingredients) THEN result
    ELSE IF result.image_analysis.t # "dict" THEN ErrorResult(ErrorAnalyzing("AttributeError"))
    ELSE IF ~Truthy(Get(result.image_analysis, "is_food_image", PyTrue))
         THEN ErrorResult(NoFoodDetected)
    ELSE result

\* the function without its except clause: an error of the model call leaves it
analyze_unguarded(how, content) ==
    IF how = "no_client" THEN ErrorResult(ApiKeyNotConfigured)
    ELSE IF how = "raises" THEN Raise(UpstreamError)
    ELSE LET result == parse_combined_response(content)
         IN  IF result.kind = "raise" THEN Raise(result.exc)
             ELSE CheckValidData(result)

analyze_fridge_and_generate_recipes(how, content) ==
    IF how = "no_client" THEN ErrorResult(ApiKeyNotConfigured)
    ELSE IF how = "raises" THEN ErrorResult(ErrorAnalyzing(UpstreamError))
    ELSE LET result == parse_combined_response(content)
         IN  IF result.kind = "raise" THEN ErrorResult(ErrorAnalyzing(result.exc))
             ELSE CheckValidData(result)

-----------------------------------------------------------------------------
(* generate_meals (utils/api.py) *)

MockMealNames ==
    <<"Herb-Crusted Chicken & Roasted Vegetables",
      "Creamy Tomato Pasta & Garlic Bread",
      "Cheesy Vegetable Frittata & Fresh Salad",
      "Chicken Stir-Fry & Egg Fried Rice",
      "Loaded Veggie Quesadillas & Tomato Salsa">>

\* a development build without its mock data
NoMockMeals == EmptyList

\* the five literal dinner ideas, each kept by its name
get_mock_meals_v2 ==
    List([i \in 1..Len(MockMealNames) |-> Dict(<<Key("name"), Key(MockMealNames[i])>>)])

MealLimit == 5

\* seq[:n]
FirstN(seq, n) == SubSeq(seq, 1, IF Len(seq) < n THEN Len(seq) ELSE n)

\* the second attempt: whatever JSON array lies between the first [ and the
\* last ] of the content, or [] when there is none
AnyJsonArray(content) ==
    LET start == Find(content, <<"[">>, 1)
        end == RFind(content, "]", Len(content))
        meals == JsonLoads(SubSeq(content, start, end))
    IN  IF /\ start > 0 /\ end >= start
           /\ meals.ok
           /\ meals.val.t = "list" /\ Len(meals.val.items) > 0
        THEN List(FirstN(meals.val.items, MealLimit))
        ELSE EmptyList

generate_meals(how, content) ==
    IF how = "no_client" THEN get_mock_meals_v2
    ELSE IF how = "raises" THEN EmptyList
    ELSE LET recipes == validate_recipe_response(content)
         IN  IF Truthy(recipes) /\ Len(recipes.items) >= MealLimit
             THEN List(FirstN(recipes.items, MealLimit))
             ELSE AnyJsonArray(content)

-----------------------------------------------------------------------------
(* The memo of @st.cache_data(ttl=3600) on analyze_fridge_and_generate_recipes *)

ttl == 3600

Images == {"fridge1", "fridge2"}

\* dietary_preferences: a list of strings
Preferences == {<<>>, <<"vegan">>}

Arguments == Images \X Preferences

\* a memo keyed on the image alone
CacheKeyImageOnly(image_base64, dietary_preferences) == <<image_base64>>

\* the key of an entry: every argument of the decorated function
CacheKey(image_base64, dietary_preferences) == <<image_base64, dietary_preferences>>

CacheKeys == {CacheKey(a[1], a[2]) : a \in Arguments}

NoEntry == [stored |-> -1, value |-> <<>>]
NoCall == [args |-> <<>>, at |-> 0, invoked |-> FALSE, result |-> <<>>]

\* what the function computes when it runs: the answer of the model to the
\* prompt of this image with these preferences appended
Computed(image_base64, dietary_preferences) == <<image_base64, dietary_preferences>>

\* an entry is served until ttl seconds after it was stored
Fresh(entry) == entry.stored >= 0 /\ clock < entry.stored + ttl

\* the parts of the program that take no part in a call of the memoized
\* function or of the post-processing functions, before anything ran
elsewhere == <<history, serverVars, pageVars, deviceVars>>

NoRequest == [api_key |-> "", stage |-> "none"]
NoAnswer == [kind |-> "none", status_code |-> 0, text |-> ""]
NoReply == [status_code |-> 0, detail |-> <<>>, data |-> Absent, message |-> ""]

Devices == {"device1", "device2"}
Users == {"user1"}
NoDevice == [seen |-> FALSE, uses_remaining |-> 0, total_uses |-> 0,
             is_authenticated |-> FALSE, user_id |-> ""]
NoDecrement == [device_id |-> "", before |-> NoDevice, returned |-> FALSE]

ElsewhereIdle ==
    /\ history = <<>>
    /\ request = NoRequest /\ provider = NoAnswer /\ reply = NoReply
    /\ api_thread = "unstarted" /\ result_queue = <<>> /\ page = "idle"
    /\ progress_value = 0 /\ page_result = NoRet
    /\ device_tracking = [present |-> FALSE, devices |-> [d \in Devices |-> NoDevice]]
    /\ decrement = NoDecrement

CacheIdle ==
    /\ memo = [k \in CacheKeys |-> NoEntry]
    /\ clock = 0
    /\ done = [a \in Arguments |-> -1]
    /\ call = NoCall

ResponseIdle ==
    /\ doc = Absent /\ style = <<>> /\ D = <<>> /\ response = <<>>
    /\ cut = 0 /\ prefix = <<>> /\ suffix = <<>>
    /\ op = "none" /\ outcome = "none" /\ ret = NoRet

CacheInit == CacheIdle /\ ResponseIdle /\ ElsewhereIdle

\* a memo that keeps no entry for a result with an error
StoreUnlessError(value, now) ==
    IF value.error.t # "absent" THEN NoEntry ELSE [stored |-> now, value |-> value]

\* st.cache_data stores whatever the function body returned
Store(value, now) == [stored |-> now, value |-> value]

\* a call served from the memo: the function body does not run
CacheHit ==
    \E a \in Arguments :
        /\ Fresh(memo[CacheKey(a[1], a[2])])
        /\ call' = [args |-> a, at |-> clock, invoked |-> FALSE,
                    result |-> memo[CacheKey(a[1], a[2])].value]
        /\ UNCHANGED <<memo, clock, done>>
        /\ UNCHANGED <<responseVars, elsewhere>>

\* a call that runs the function body, and with it the model, and stores
\* what it returns
CacheMiss ==
    \E a \in Arguments :
        /\ ~Fresh(memo[CacheKey(a[1], a[2])])
        /\ memo' = [memo EXCEPT ![CacheKey(a[1], a[2])] =
                        [stored |-> clock, value |-> Computed(a[1], a[2])]]
        /\ done' = [done EXCEPT ![a] = clock]
        /\ call' = [args |-> a, at |-> clock, invoked |-> TRUE,
                    result |-> Computed(a[1], a[2])]
        /\ UNCHANGED clock
        /\ UNCHANGED <<responseVars, elsewhere>>

Tick ==
    /\ clock + TickSeconds <= MaxClock
    /\ clock' = clock + TickSeconds
    /\ UNCHANGED <<memo, done, call>>
    /\ UNCHANGED <<responseVars, elsewhere>>

CacheNext == CacheHit \/ CacheMiss \/ Tick

CacheSpec == CacheInit /\ [][CacheNext]_vars

-----------------------------------------------------------------------------
(* The responses *)

DetectionDoc(ings, withTotal) ==
    Dict(<<Key("ingredients"), ings>>
         \o (IF withTotal THEN <<Key("total_items"), PyInt(Len(ings.items))>> ELSE <<>>)
         \o <<Key("detection_confidence"), Key("high")>>)

DetectionDocs ==
    {DetectionDoc(ings, withTotal) : ings \in IngredientLists, withTotal \in BOOLEAN}

\* valid JSON that is no object
OtherDocs == {EmptyList, Num("6"), Key("eggs"), None}

\* ingredient candidates: with a quantity under either key, and with a name
\* that is missing, null, empty or blank
CandidateShapes == {"counted", "measured", "unnamed", "null", "empty", "blank"}

IngredientCandidate(i, shape) ==
    CASE shape = "counted" ->
            Dict(<<Key("name"), Key(IngredientNames[i]), Key("estimated_quantity"), Num("6")>>)
      [] shape = "measured" ->
            Dict(<<Key("name"), Key(IngredientNames[i]), Key("quantity"), Key("2"),
                   Key("unit"), Key("cups"), Key("category"), Key("dairy")>>)
      [] shape = "unnamed" -> Dict(<<Key("estimated_quantity"), Key("1")>>)
      [] shape = "null" -> Dict(<<Key("name"), None>>)
      [] shape = "empty" -> Dict(<<Key("name"), EmptyStr>>)
      [] shape = "blank" -> Dict(<<Key("name"), Str(<<SP>>)>>)
      [] OTHER -> IngredientItem(i, shape)

CandidateLists ==
    {List([i \in 1..n |-> IngredientCandidate(i, IF i = n THEN shape ELSE "plain")]) :
        n \in 1..MaxIngredients, shape \in CandidateShapes}

CandidateDocs ==
    {DetectionDoc(ings, TRUE) : ings \in CandidateLists}
    \cup {CombinedDoc(Dict(<<Key("is_food_image"), PyTrue>>), ings, EmptyList) :
            ings \in CandidateLists}

\* recipe candidates: the two instruction formats and their mixes, times
\* with and without total_time, nutrition under both names
StepShapes == {"steps", "numbered", "steps_first", "numbered_first"}
TimeShapes == {"prep", "timed"}
NutritionShapes == {"nutrition", "nutrition_info", "nutrition_na"}
RecipeShapes == {"flat", "nested"} \cup StepShapes \cup TimeShapes \cup NutritionShapes

Step(n, text) == Dict(<<Key("step_number"), PyInt(n), Key("instruction"), Key(text)>>)

RecipeCandidate(i, shape) ==
    LET named == <<Key("name"), Key(RecipeNames[i])>>
    IN  CASE shape = "steps" ->
                Dict(named \o <<Key("instructions"), List(<<Key("Beat"), Key("Fry")>>)>>)
          [] shape = "numbered" ->
                Dict(named \o <<Key("instructions"), List(<<Step(1, "Beat"), Step(2, "Fry")>>)>>)
          [] shape = "steps_first" ->
                Dict(named \o <<Key("instructions"), List(<<Key("Beat"), Step(2, "Fry")>>)>>)
          [] shape = "numbered_first" ->
                Dict(named \o <<Key("instructions"), List(<<Step(1, "Beat"), Key("Fry")>>)>>)
          [] shape = "prep" -> Dict(named \o <<Key("prep_time"), Num("5")>>)
          [] shape = "timed" ->
                Dict(named \o <<Key("total_time"), Num("15"), Key("prep_time"), Num("5"),
                                Key("cook_time"), Num("7")>>)
          [] shape = "nutrition" ->
                Dict(named \o <<Key("nutrition"), Dict(<<Key("calories"), Key("400")>>)>>)
          [] shape = "nutrition_info" ->
                Dict(named \o <<Key("nutrition_info"),
                                Dict(<<Key("calories_per_serving"), Num("400")>>)>>)
          [] shape = "nutrition_na" ->
                Dict(named \o <<Key("nutrition"), Dict(<<Key("calories"), Key("N/A")>>)>>)
          [] OTHER -> RecipeItem(i, shape)

\* a batch of n recipes, the last of the given shape and the others flat
RecipeBatch(n, shape) ==
    List([i \in 1..n |-> RecipeCandidate(i, IF i = n THEN shape ELSE "flat")])

\* small batches of every shape, and flat batches at and above the limit
RecipeBatches ==
    {RecipeBatch(n, shape) : n \in 0..MaxRecipes, shape \in RecipeShapes}
    \cup {RecipeBatch(n, "flat") : n \in {MealLimit, MealLimit + 1}}

\* the recipe response: the object the prompt asks for, or a bare array
RecipeDocs ==
    {Dict(<<Key("recipes"), recs>>) : recs \in RecipeBatches} \cup RecipeBatches

\* combined responses with as many recipes as the limit, and one more
LongDocs ==
    {CombinedDoc(Dict(<<Key("is_food_image"), PyTrue>>),
                 List(<<IngredientItem(1, "plain")>>), RecipeBatch(n, "flat")) :
        n \in {MealLimit, MealLimit + 1}}

\* the answers to the combined and the detection prompt
Docs == CombinedDocs \cup DetectionDocs \cup OtherDocs

\* the answers the validators and normalizers are checked on
NormalizationDocs ==
    RecipeDocs \cup CandidateDocs \cup LongDocs \cup DetectionDocs \cup OtherDocs

NoJson == {<<>>, <<"I", SP, "see", SP, "a", SP, "cat">>}

ProseBefore == {<<>>, <<SP>>, <<"Sure", SP>>, <<"Use", SP, "{", SP>>, <<"[">>}
ProseAfter == {<<>>, <<SP>>, <<SP, "Enjoy">>, <<SP, ":", "}">>, <<"]">>}

\* the model sends one of `docs` or no JSON at all; the text arrives whole,
\* cut short, or wrapped in prose; no function has been called
Sent(docs) ==
    /\ \/ doc \in docs /\ style \in Separators /\ D = Dumps(doc, style)
       \/ doc = Absent /\ style = <<>> /\ D \in NoJson
    /\ \/ cut \in 0..Len(D) /\ prefix = <<>> /\ suffix = <<>>
       \/ cut = Len(D) /\ prefix \in ProseBefore /\ suffix \in ProseAfter
    /\ response = prefix \o SubSeq(D, 1, cut) \o suffix
    /\ op = "none"
    /\ outcome = "none"
    /\ ret = NoRet
    /\ CacheIdle
    /\ ElsewhereIdle

Init == Sent(Docs)

NormalizationInit == Sent(NormalizationDocs)

Returns(name, how, value) ==
    /\ op = "none"
    /\ op' = name
    /\ outcome' = how
    /\ ret' = value
    /\ UNCHANGED <<doc, style, D, response, cut, prefix, suffix>>
    /\ UNCHANGED <<cacheVars, elsewhere>>

ParseCombined ==
    Returns("parse_combined_response", "none", parse_combined_response(response))

ParseCombinedArchive ==
    Returns("parse_combined_response_archive", "none",
            parse_combined_response_archive(response))

\* the client is missing, the call raises, or the call returns `response`
CallOutcomes == {"no_client", "raises", "text"}

DetectIngredients ==
    \E how \in CallOutcomes :
        Returns("detect_ingredients", how, detect_ingredients(how, response))

AnalyzeFridge ==
    \E how \in CallOutcomes :
        Returns("analyze_fridge_and_generate_recipes", how,
                analyze_fridge_and_generate_recipes(how, response))

GenerateMeals ==
    \E how \in CallOutcomes :
        Returns("generate_meals", how, Value(generate_meals(how, response)))

ValidateIngredients ==
    Returns("validate_ingredient_response", "none",
            Value(validate_ingredient_response(response)))

ValidateRecipes ==
    Returns("validate_recipe_response", "none", Value(validate_recipe_response(response)))

Next == ParseCombined \/ ParseCombinedArchive \/ DetectIngredients \/ AnalyzeFridge

Spec == Init /\ [][Next]_vars

\* the functions that validate and normalize what the model sent
NormalizationNext ==
    \/ DetectIngredients
    \/ AnalyzeFridge
    \/ GenerateMeals
    \/ ValidateIngredients
    \/ ValidateRecipes

NormalizationSpec == NormalizationInit /\ [][NormalizationNext]_vars

-----------------------------------------------------------------------------
(* Where the parts of a combined document lie in its text D *)

ParseOps == {"parse_combined_response", "parse_combined_response_archive"}

Parse(name, text) ==
    IF name = "parse_combined_response" THEN parse_combined_response(text)
    ELSE parse_combined_response_archive(text)

IsCombined == doc \in CombinedDocs
Truncated == prefix = <<>> /\ suffix = <<>> /\ cut < Len(D)
Whole == cut = Len(D)

DocIngredients == Get(doc, "ingredients", Absent)
DocRecipes == Get(doc, "recipes", Absent)

\* the members of doc before "recipes"
DocHead == SubSeq(doc.items, 1, Len(doc.items) - 2)

\* the index in D of the ] that closes the ingredients array
IngredientsClose == Len(Dumps(Dict(DocHead), style)) - 1

\* the index in D of the } that closes the j-th recipe, and of its {
RecipeClose(j) ==
    Len(Dumps(Dict(DocHead \o <<Key("recipes"), List(SubSeq(DocRecipes.items, 1, j))>>),
              style)) - 2
RecipeOpen(j) == RecipeClose(j) - Len(Dumps(DocRecipes.items[j], style)) + 1

\* the cut lies after the ] of ingredients and before the ] of recipes
CutAfterIngredients ==
    IsCombined /\ Truncated /\ cut >= IngredientsClose /\ cut <= Len(D) - 2

\* the cut lies inside the k-th recipe object
CutInRecipe(k) ==
    /\ IsCombined /\ Truncated
    /\ k \in 1..Len(DocRecipes.items)
    /\ cut >= RecipeOpen(k) /\ cut < RecipeClose(k)

HasAllKeys(r) ==
    /\ r.kind = "dict"
    /\ r.ingredients # Absent /\ r.recipes # Absent
    /\ r.image_analysis # Absent /\ r.raw_response # Absent

SameFields(r1, r2) ==
    /\ r1.kind = "dict" /\ r2.kind = "dict"
    /\ r1.ingredients = r2.ingredients
    /\ r1.recipes = r2.recipes
    /\ r1.image_analysis = r2.image_analysis

HasError(r) == r.error \notin {Absent, None}
HasContent(r) == Truthy(r.ingredients) \/ Truthy(r.recipes)

-----------------------------------------------------------------------------
(* The claims *)

\* C1: truncation recovery.  For every document D holding an ingredients array
\* followed by a recipes array, and every cut of D's text after the closing ]
\* of ingredients and before the end of recipes, parse_combined_response of
\* the cut text returns D's ingredients array, same elements in the same order.
C1_TruncationRecovery ==
    (op = "parse_combined_response" /\ CutAfterIngredients)
        => (ret.kind = "dict" /\ ret.ingredients = DocIngredients)

\* What the archived version does recover: the ingredients of a text written
\* with a space after each colon.
C1_ArchiveRecoversSpaced ==
    (op = "parse_combined_response_archive" /\ CutAfterIngredients /\ style = <<SP>>)
        => (ret.kind = "dict" /\ ret.ingredients = DocIngredients)

\* C2: partial recipe recovery.  When the response is cut part-way through its
\* k-th recipe object, the truncated-recovery path returns all ingredients and
\* exactly the k-1 recipes that are complete before the cut, each equal to the
\* recipe of the original document, and no error.
C2_PartialRecipeRecovery ==
    \A k \in 1..MaxRecipes + 1 :
        (op = "parse_combined_response_archive" /\ style = <<SP>> /\ CutInRecipe(k))
            => /\ ret.kind = "dict"
               /\ ret.ingredients = DocIngredients
               /\ ret.recipes = List(SubSeq(DocRecipes.items, 1, k - 1))
               /\ ~HasError(ret)
               /\ ~HasKey(ret.image_analysis, "error")

\* C3: parse_combined_response never raises.  For every response it returns a
\* dict with the keys ingredients, recipes, image_analysis and raw_response,
\* and the failure marker when the response holds no JSON at all.
C3_NeverRaises ==
    op \in ParseOps
        => /\ HasAllKeys(ret)
           /\ (doc = Absent /\ Whole) => ret = FailureMarker(response)

\* C4, as claimed: for every JSON object J, every prefix P and every suffix S,
\* parse_combined_response(P + J + S) returns the ingredients, recipes and
\* image_analysis of parse_combined_response(J).
C4_ProseTolerance ==
    (op \in ParseOps /\ doc.t = "dict" /\ Whole)
        => SameFields(ret, Parse(op, D))

\* P + J + S is itself a JSON document that is no object, such as [J]
WrappedAsJson == JsonLoads(response).ok /\ JsonLoads(response).val.t # "dict"

BraceFreeProse == \A i \in 1..Len(prefix) : prefix[i] # "{"
BraceFreeAfter == \A i \in 1..Len(suffix) : suffix[i] # "}"

\* C4, amended: the same, for every prefix P that holds no { and every suffix S
\* that holds no }, where P + J + S is not itself a JSON document of another
\* type: the scoped step parses from the first { to the last } of the response,
\* and the fields are those of the object J.
C4_ProseToleranceBraceFree ==
    (op \in ParseOps /\ doc.t = "dict" /\ Whole
        /\ BraceFreeProse /\ BraceFreeAfter /\ ~WrappedAsJson)
        => /\ SameFields(ret, Parse(op, D))
           /\ ret.ingredients = Get(doc, "ingredients", EmptyList)
           /\ ret.recipes = Get(doc, "recipes", EmptyList)
           /\ ret.image_analysis = Get(doc, "image_analysis", EmptyDict)

\* a JSON object between words of prose, parsed by the scoped step
C4_Witness ==
    /\ op = "parse_combined_response"
    /\ prefix = <<"Sure", SP>> /\ suffix = <<SP, "Enjoy">>
    /\ IsCombined /\ Len(DocIngredients.items) = 2 /\ Len(DocRecipes.items) = 2
    /\ ret.ingredients = DocIngredients /\ ret.recipes = DocRecipes

\* all three extraction steps fail on the response
NothingRecovered ==
    /\ parse_combined_response(response) = FailureMarker(response)
    /\ parse_combined_response_archive(response) = FailureMarker(response)

\* C5: ParseFailure is surfaced.  When the response holds no recoverable JSON,
\* analyze_fridge_and_generate_recipes returns ingredients = [], recipes = []
\* and a non-null error, which is not the "No food ingredients detected" one.
C5_ParseFailureSurfaced ==
    (op = "analyze_fridge_and_generate_recipes" /\ outcome = "text" /\ NothingRecovered)
        => /\ ret.ingredients = EmptyList /\ ret.recipes = EmptyList
           /\ HasError(ret)
           /\ ret.error # NoFoodDetected

\* the response is valid JSON, and its ingredient list is empty
ValidJson == JsonLoads(response).ok
ValidJsonNoIngredients ==
    /\ ValidJson
    /\ JsonLoads(response).val.t = "dict"
    /\ Get(JsonLoads(response).val, "ingredients", Absent) = EmptyList

\* C6: detect_ingredients keeps the two failure kinds apart.  It returns the
\* "No food ingredients detected" error exactly when the response is valid
\* JSON whose ingredient list is empty, the "Failed to analyze" error exactly
\* when the response could not be parsed, and never "Failed to analyze" for
\* valid JSON.
C6_FailureKindsApart ==
    (op = "detect_ingredients" /\ outcome = "text")
        => /\ (ret.error = NoFoodInImage) <=> ValidJsonNoIngredients
           /\ (ret.error = FailedToAnalyze) <=> ~ValidJson
           /\ ValidJson => ret.error # FailedToAnalyze

C8_ContentXorError ==
    op = "analyze_fridge_and_generate_recipes" => (HasContent(ret) <=> ~HasError(ret))

\* C9: error exclusivity.  No result of analyze_fridge_and_generate_recipes,
\* on any path, has both a non-null error and a non-empty recipes list.
C9_ErrorExclusivity ==
    op = "analyze_fridge_and_generate_recipes" => ~(HasError(ret) /\ Truthy(ret.recipes))

\* the short-circuit on a response that did carry recipes
C9_Witness ==
    /\ op = "analyze_fridge_and_generate_recipes" /\ outcome = "text"
    /\ IsCombined /\ Whole /\ Len(DocRecipes.items) = 2
    /\ HasError(ret) /\ ret.recipes = EmptyList

\* C10: whenever the model returned a text, the result of
\* analyze_fridge_and_generate_recipes holds raw_response equal to that text.
C10_RawResponseRetained ==
    (op = "analyze_fridge_and_generate_recipes" /\ outcome = "text")
        => ret.raw_response = Str(response)

-----------------------------------------------------------------------------
(* The recipe and ingredient claims *)

\* what validate_recipe_response makes of the response: a list, or None
Validated == validate_recipe_response(response)

InSeq(x, seq) == \E i \in 1..Len(seq) : seq[i] = x

MealsFromText == op = "generate_meals" /\ outcome = "text"

\* C11: with a model client configured, whenever the recipe response fails
\* parsing or validation as a recipe batch, generate_meals returns the empty
\* list; it never returns placeholder recipes and never returns an item that
\* did not pass recipe validation.
C11_FailureGivesEmpty ==
    MealsFromText
        => /\ Validated = None => ret.value = EmptyList
           /\ \A i \in 1..Len(ret.value.items) :
                  Validated # None /\ InSeq(ret.value.items[i], Validated.items)

ModelCallers == {"detect_ingredients", "generate_meals", "analyze_fridge_and_generate_recipes"}

\* what the function `name` returns for a call that went `how`
Call(name, how, content) ==
    CASE name = "detect_ingredients" -> detect_ingredients(how, content)
      [] name = "generate_meals" -> Value(generate_meals(how, content))
      [] OTHER -> analyze_fridge_and_generate_recipes(how, content)

\* a valid answer of the model with nothing in it
EmptyAnswer(name) ==
    CASE name = "detect_ingredients" -> Dumps(DetectionDoc(EmptyList, TRUE), <<SP>>)
      [] name = "generate_meals" -> Dumps(Dict(<<Key("recipes"), EmptyList>>), <<SP>>)
      [] OTHER -> Dumps(CombinedDoc(Absent, EmptyList, EmptyList), <<SP>>)

\* C12: an upstream failure is never reported as empty content.  In
\* detect_ingredients, generate_meals and analyze_fridge_and_generate_recipes
\* the value returned after a failed model call differs from the value
\* returned for a valid answer with empty content, and carries the text of
\* the upstream error.
C12_UpstreamFailureApart ==
    (op \in ModelCallers /\ outcome = "raises")
        => /\ ret # Call(op, "text", EmptyAnswer(op))
           /\ ret.error.t = "str" /\ InSeq(UpstreamError, ret.error.s)

\* what does hold: the two functions that return a dict keep the two apart
C12_DictResultsApart ==
    (op \in ModelCallers \ {"generate_meals"} /\ outcome = "raises")
        => /\ ret # Call(op, "text", EmptyAnswer(op))
           /\ ret.error.t = "str" /\ InSeq(UpstreamError, ret.error.s)

\* C13: memoization is keyed on the full input.  A call of
\* analyze_fridge_and_generate_recipes returns a memoized result, without
\* invoking the model, only when an earlier call with exactly the same (image,
\* dietary preferences) pair completed within the ttl of 3600 s; calls with
\* the same image and different preferences share no entry, so each receives
\* a result computed for its own preferences.
C13_KeyedOnFullInput ==
    call # NoCall
        => /\ ~call.invoked
                => (done[call.args] >= 0 /\ call.at - done[call.args] < ttl)
           /\ call.result = Computed(call.args[1], call.args[2])

\* a call served from the memo some time after its entry was stored, while
\* the memo also holds a fresh entry for the same image and other preferences
C13_Witness ==
    /\ call # NoCall /\ ~call.invoked
    /\ call.at > done[call.args]
    /\ \E a \in Arguments :
           /\ a[1] = call.args[1] /\ a[2] # call.args[2]
           /\ done[a] >= 0 /\ done[a] < call.at /\ call.at - done[a] < ttl

\* the name of the candidate is missing, null, empty or whitespace-only
NoName(candidate) ==
    LET name == Get(candidate, "name", Absent)
    IN  \/ name \in {Absent, None}
        \/ name.t = "str" /\ \A i \in 1..Len(name.s) : name.s[i] = SP

Nameless(candidates) == {i \in 1..Len(candidates) : NoName(candidates[i])}

\* the response is the whole text of a document with an ingredients array
WholeWithIngredients ==
    /\ Whole /\ prefix = <<>> /\ suffix = <<>>
    /\ doc.t = "dict" /\ DocIngredients.t = "list"

IngredientOps == {"detect_ingredients", "analyze_fridge_and_generate_recipes"}

\* C14: name filter.  In every ingredient list returned by detect_ingredients
\* and analyze_fridge_and_generate_recipes no entry has a name that is
\* missing, null, empty or whitespace-only, and the number of returned entries
\* is the number of input candidates minus the number of candidates with such
\* a name (counted on the results that report no error).
C14_NameFilter ==
    (op \in IngredientOps /\ outcome = "text" /\ ret.kind = "dict")
        => /\ Nameless(ret.ingredients.items) = {}
           /\ (WholeWithIngredients /\ ~HasError(ret))
                => Len(ret.ingredients.items)
                       = Len(DocIngredients.items) - Cardinality(Nameless(DocIngredients.items))

\* what validate_ingredient_response does filter: candidates whose name is
\* missing, null or the empty string
C14_FalsyNamesDropped ==
    op = "validate_ingredient_response" /\ ret.value # None
        => \A i \in 1..Len(Get(ret.value, "ingredients", EmptyList).items) :
               Truthy(Get(Get(ret.value, "ingredients", EmptyList).items[i], "name", None))

\* the recipe candidates of the document: its recipes array, or the document
\* itself when it is a bare array
DocBatch == IF doc.t = "dict" THEN Get(doc, "recipes", Absent) ELSE doc

\* the candidate is one validate_recipe_response can format, and its
\* normalized form
ValidCandidate(recipe) == FormattedRecipes(<<recipe>>, 1, <<>>).ok
Normalized(recipe) == FormattedRecipes(<<recipe>>, 1, <<>>).list[1]

\* the response is the whole text of a document holding valid candidates
WholeWithRecipes ==
    /\ Whole /\ prefix = <<>> /\ suffix = <<>>
    /\ DocBatch.t = "list"
    /\ \A i \in 1..Len(DocBatch.items) : ValidCandidate(DocBatch.items[i])

Min(a, b) == IF a < b THEN a ELSE b

\* the first min(N, 5) candidates, in their order, each normalized
CappedBatch ==
    List([i \in 1..Min(Len(DocBatch.items), MealLimit) |-> Normalized(DocBatch.items[i])])

\* the recipes a call returned
ReturnedRecipes == IF op = "generate_meals" THEN ret.value ELSE ret.recipes

\* C15: recipe cap.  When the model response holds N >= 0 valid recipe
\* candidates, the recipes returned by generate_meals and by
\* analyze_fridge_and_generate_recipes are exactly the first min(N, 5)
\* candidates in their original order, each in normalized form; a batch of 1
\* to 4 recipes is accepted like a batch of 5, and the list is never padded.
C15_RecipeCap ==
    (/\ WholeWithRecipes /\ outcome = "text"
     /\ \/ op = "generate_meals" /\ doc \in RecipeDocs
        \/ /\ op = "analyze_fridge_and_generate_recipes"
           /\ doc.t = "dict" /\ HasKey(doc, "ingredients") /\ ~HasError(ret))
        => ReturnedRecipes = CappedBatch

\* what does hold: generate_meals returns the first 5 recipes, normalized, of
\* a batch of 5 or more recipes without nested arrays
C15_FullBatchCapped ==
    (/\ WholeWithRecipes /\ MealsFromText /\ doc \in RecipeDocs
     /\ Len(DocBatch.items) >= MealLimit)
        => ret.value = CappedBatch

\* no returned list is longer than the candidates of the response
C15_NeverPadded ==
    (WholeWithRecipes /\ outcome = "text"
     /\ op \in {"generate_meals", "analyze_fridge_and_generate_recipes"})
        => Len(ReturnedRecipes.items) <= Len(DocBatch.items)

HasName(candidate) == Truthy(Get(candidate, "name", None))

\* the canonical record of a candidate: the quantity from whichever key the
\* candidate carries
Canonical(candidate) ==
    Dict(<<Key("name"), Get(candidate, "name", EmptyStr),
           Key("quantity"),
               PyStr(Get(candidate, "quantity", Get(candidate, "estimated_quantity", EmptyStr))),
           Key("unit"), Get(candidate, "unit", EmptyStr),
           Key("category"), Get(candidate, "category", Key("other"))>>)

Canonicals(candidates) ==
    LET named == SelectSeq(candidates, HasName)
    IN  [i \in 1..Len(named) |-> Canonical(named[i])]

EmittedIngredients == Get(ret.value, "ingredients", EmptyList).items

ValidatedIngredients ==
    op = "validate_ingredient_response" /\ ret.value # None /\ WholeWithIngredients

\* C16: ingredient normalization.  For every candidate with a non-empty name
\* validate_ingredient_response emits one canonical record whose quantity is
\* the string form of whichever of quantity or estimated_quantity the
\* candidate carries ("" when it has neither), whose unit defaults to "" and
\* whose category defaults to "other".
C16_IngredientNormalization ==
    ValidatedIngredients => EmittedIngredients = Canonicals(DocIngredients.items)

\* what does hold: the same for candidates that carry no `quantity` key
C16_EstimatedQuantityOnly ==
    (ValidatedIngredients
     /\ \A i \in 1..Len(DocIngredients.items) : ~HasKey(DocIngredients.items[i], "quantity"))
        => EmittedIngredients = Canonicals(DocIngredients.items)

\* the steps of a candidate as plain strings, in their order
PlainSteps(recipe) ==
    LET steps == Get(recipe, "instructions", EmptyList).items
    IN  [j \in 1..Len(steps) |->
            IF steps[j].t = "dict" THEN Get(steps[j], "instruction", EmptyStr) ELSE steps[j]]

\* the calories of a candidate, under whichever names it carries them
CandidateCalories(recipe) ==
    LET nutrition == Get(recipe, "nutrition_info", Get(recipe, "nutrition", EmptyDict))
    IN  Get(nutrition, "calories", Get(nutrition, "calories_per_serving", PyInt(0)))

KeysOf(d) == [i \in 1..(Len(d.items) \div 2) |-> d.items[2 * i - 1].s[1]]

CanonicalKeys ==
    <<"name", "description", "main_dish", "side_dish", "total_time", "prep_time",
      "cook_time", "servings", "difficulty", "ingredients_used", "instructions",
      "nutrition", "tips", "tags", "share_caption">>

\* validate_recipe_response was given the whole text of a recipe response
\* with at least one candidate
RecipesValidated ==
    /\ op = "validate_recipe_response"
    /\ Whole /\ prefix = <<>> /\ suffix = <<>>
    /\ doc \in RecipeDocs /\ Len(DocBatch.items) > 0

\* one emitted record for each of the first 5 candidates
OnePerCandidate ==
    /\ ret.value.t = "list"
    /\ Len(ret.value.items) = Min(Len(DocBatch.items), MaxFormatted)

\* C17: recipe field reconciliation.  For every recipe candidate,
\* validate_recipe_response emits `instructions` as a list of plain strings in
\* the original order whether the input steps are strings or {step_number,
\* instruction} objects, in any mix, and emits nutrition.calories from
\* whichever of nutrition_info / nutrition and calories / calories_per_serving
\* is present; the emitted record has the same canonical keys for either shape.
C17_FieldReconciliation ==
    RecipesValidated
        => /\ OnePerCandidate
           /\ \A i \in 1..Len(ret.value.items) :
                  /\ Get(ret.value.items[i], "instructions", Absent)
                         = List(PlainSteps(DocBatch.items[i]))
                  /\ Get(Get(ret.value.items[i], "nutrition", EmptyDict), "calories", Absent)
                         = CandidateCalories(DocBatch.items[i])
                  /\ KeysOf(ret.value.items[i]) = CanonicalKeys

\* what does hold: the same for batches whose recipes carry no array
C17_WithoutArrays ==
    (RecipesValidated
     /\ \A i \in 1..Len(DocBatch.items) :
            \A k \in 1..Len(DocBatch.items[i].items) : DocBatch.items[i].items[k].t # "list")
        => /\ OnePerCandidate
           /\ \A i \in 1..Len(ret.value.items) :
                  /\ Get(ret.value.items[i], "instructions", Absent)
                         = List(PlainSteps(DocBatch.items[i]))
                  /\ Get(Get(ret.value.items[i], "nutrition", EmptyDict), "calories", Absent)
                         = CandidateCalories(DocBatch.items[i])
                  /\ KeysOf(ret.value.items[i]) = CanonicalKeys

\* the int a number value stands for
IntOf(v) ==
    IF v.s = <<"0">> THEN 0 ELSE CHOOSE n \in 1..Len(NumWord) : NumWord[n] = v.s[1]

\* prep_time + cook_time of a candidate, with 10 and 20 for the absent ones
SummedTime(recipe) ==
    PyInt(IntOf(Get(recipe, "prep_time", PyInt(DefaultPrepTime)))
          + IntOf(Get(recipe, "cook_time", PyInt(DefaultCookTime))))

\* validate_recipe_response emitted one record for each candidate
RecipesEmitted == RecipesValidated /\ OnePerCandidate

\* C18: time defaults.  For every recipe candidate without total_time the
\* normalized recipe has total_time = prep_time + cook_time, where prep_time
\* and cook_time are the candidate's values when given and 10 and 20 when
\* absent.
C18_TimeDefaults ==
    RecipesEmitted
        => \A i \in 1..Len(ret.value.items) :
               ~HasKey(DocBatch.items[i], "total_time")
                   => Get(ret.value.items[i], "total_time", Absent)
                          = SummedTime(DocBatch.items[i])

\* what does hold: the same for candidates that give neither time
C18_BothTimesAbsent ==
    RecipesEmitted
        => \A i \in 1..Len(ret.value.items) :
               (/\ ~HasKey(DocBatch.items[i], "total_time")
                /\ ~HasKey(DocBatch.items[i], "prep_time")
                /\ ~HasKey(DocBatch.items[i], "cook_time"))
                   => Get(ret.value.items[i], "total_time", Absent)
                          = SummedTime(DocBatch.items[i])

\* a numeric-looking string as the int it spells, any other value unchanged
Coerced(v) ==
    IF v.t = "str" /\ Len(v.s) = 1 /\ v.s[1] \in Numerals THEN Num(v.s[1]) ELSE v

EmittedCalories(i) ==
    Get(Get(ret.value.items[i], "nutrition", EmptyDict), "calories", Absent)

\* the last candidate of the batch gives its calories as a string
StringCalories ==
    RecipesValidated /\ CandidateCalories(DocBatch.items[Len(DocBatch.items)]).t = "str"

\* C19: nutrition coercion.  In every normalized recipe a nutrition value
\* given as a numeric-looking string such as "400" is emitted as the integer
\* 400, and a non-numeric value such as "N/A" is emitted as the unchanged
\* string; it is never replaced by 0 and never causes the recipe or the batch
\* to be rejected.
C19_NutritionCoercion ==
    StringCalories
        => /\ OnePerCandidate
           /\ \A i \in 1..Len(ret.value.items) :
                  EmittedCalories(i) = Coerced(CandidateCalories(DocBatch.items[i]))

\* what does hold: every string value is emitted as the string it was, and
\* the batch is not rejected
C19_StringsUnchanged ==
    StringCalories
        => /\ OnePerCandidate
           /\ \A i \in 1..Len(ret.value.items) :
                  EmittedCalories(i) = CandidateCalories(DocBatch.items[i])

\* the response is a JSON object with an `ingredients` array and a
\* `detection_confidence`
DetectionObject ==
    LET data == JsonLoads(response)
    IN  /\ data.ok /\ data.val.t = "dict"
        /\ Get(data.val, "ingredients", Absent).t = "list"
        /\ HasKey(data.val, "detection_confidence")

\* the text holds the key "ingredients" nowhere
NoIngredientsKey == Find(response, <<Q, "ingredients", Q>>, 1) = 0

\* C20: ingredient-response acceptance.  validate_ingredient_response returns
\* None for every response that has no `ingredients` key, and returns a
\* result, not None, for every response that is a JSON object with an
\* `ingredients` array and a `detection_confidence`, whether or not
\* `total_items` is present; total_items is then the number of ingredients.
C20_IngredientAcceptance ==
    op = "validate_ingredient_response"
        => /\ NoIngredientsKey => ret.value = None
           /\ DetectionObject
                => /\ ret.value # None
                   /\ Get(ret.value, "total_items", Absent) = PyInt(Len(EmittedIngredients))

\* what does hold: None without the key, and total_items counted from the
\* emitted ingredients whenever a result is returned
C20_NoneWithoutKey ==
    op = "validate_ingredient_response"
        => /\ NoIngredientsKey => ret.value = None
           /\ ret.value # None
                => Get(ret.value, "total_items", Absent) = PyInt(Len(EmittedIngredients))

-----------------------------------------------------------------------------
(* Repeated calls of the post-processing functions.  None of the three     *)
(* reads or writes anything but its argument and its locals: each call     *)
(* decodes the text anew (json.loads) and builds fresh dicts and lists.    *)

PostProcessors ==
    {"parse_combined_response", "validate_ingredient_response", "validate_recipe_response"}

MaxCalls == 2
MaxUnits == 24

PostProcess(name, text) ==
    CASE name = "parse_combined_response" -> parse_combined_response(text)
      [] name = "validate_ingredient_response" -> Value(validate_ingredient_response(text))
      [] name = "validate_recipe_response" -> Value(validate_recipe_response(text))

\* a function that reads state an earlier call left behind: once it has been
\* called, it finds its input consumed
EvaluateOnce(name, text) ==
    IF \E i \in 1..Len(history) : history[i].name = name
    THEN PostProcess(name, <<>>)
    ELSE PostProcess(name, text)

\* one evaluation: the value depends on the function and the text alone
Evaluate(name, text) == PostProcess(name, text)

\* the documents of at most MaxUnits units
ShortDocs ==
    {d \in CombinedDocs \cup DetectionDocs \cup RecipeDocs \cup OtherDocs :
        Len(Dumps(d, <<>>)) <= MaxUnits}

DeterminismInit == Sent(ShortDocs)

\* a call on the response, or on the text the model meant to send
PostProcessCall ==
    \E name \in PostProcessors, text \in {response, D} :
        /\ Len(history) < MaxCalls
        /\ history' = Append(history, [name |-> name, text |-> text,
                                       returned |-> Evaluate(name, text)])
        /\ UNCHANGED <<responseVars, cacheVars, serverVars, pageVars, deviceVars>>

DeterminismNext == PostProcessCall

DeterminismSpec == DeterminismInit /\ [][DeterminismNext]_vars

C21_WitnessAfterOther ==
    /\ Len(history) = 2
    /\ history[1].name = history[2].name
    /\ history[1].text # history[2].text
    /\ history[1].returned # history[2].returned

-----------------------------------------------------------------------------
(* POST /analyze_fridge_image of the proxy server (ios/server-main.py) *)

\* the models a response is validated against: a required field must be
\* present and of its type, an Optional one may be missing or null
IsStr(v) == v.t = "str"
IsInt(v) == v.t = "num" \/ (v.t = "str" /\ Len(v.s) = 1 /\ v.s[1] \in Numerals)
IsBool(v) == v \in {PyTrue, PyFalse}

HasFields(d, keys, Type(_)) == \A k \in keys : Type(Get(d, k, Absent))
OptionalFields(d, keys, Type(_)) ==
    \A k \in keys : Get(d, k, None) = None \/ Type(Get(d, k, None))
DefaultedFields(d, keys, Type(_)) ==
    \A k \in keys : ~HasKey(d, k) \/ Type(Get(d, k, Absent))
ListOf(v, Item(_)) == v.t = "list" /\ \A i \in 1..Len(v.items) : Item(v.items[i])

Nutrition(v) ==
    /\ v.t = "dict"
    /\ DefaultedFields(v, {"calories", "protein", "carbs", "fat"}, IsInt)
    /\ OptionalFields(v, {"fiber", "sugar", "sodium"}, IsInt)

IngredientUsed(v) == v.t = "dict" /\ HasFields(v, {"name", "amount"}, IsStr)

StrList(v) == ListOf(v, IsStr)
IngredientUsedList(v) == ListOf(v, IngredientUsed)

Recipe(v) ==
    /\ v.t = "dict"
    /\ DefaultedFields(v, {"id"}, IsStr)
    /\ HasFields(v, {"name", "description", "difficulty"}, IsStr)
    /\ HasFields(v, {"instructions"}, StrList)
    /\ OptionalFields(v, {"main_dish", "side_dish", "tips", "share_caption"}, IsStr)
    /\ OptionalFields(v, {"total_time", "prep_time", "cook_time", "servings"}, IsInt)
    /\ OptionalFields(v, {"ingredients_used"}, IngredientUsedList)
    /\ OptionalFields(v, {"nutrition"}, Nutrition)
    /\ OptionalFields(v, {"tags"}, StrList)

ImageAnalysis(v) ==
    /\ v.t = "dict"
    /\ HasFields(v, {"is_food_image"}, IsBool)
    /\ HasFields(v, {"confidence", "image_description"}, IsStr)

Ingredient(v) ==
    /\ v.t = "dict"
    /\ HasFields(v, {"name", "quantity", "unit", "category", "freshness"}, IsStr)
    /\ OptionalFields(v, {"location"}, IsStr)

IngredientList(v) == ListOf(v, Ingredient)
RecipeList(v) == ListOf(v, Recipe)

\* GrokParsedResponse(**d) succeeds
GrokParsedResponse(d) ==
    /\ d.t = "dict"
    /\ HasFields(d, {"image_analysis"}, ImageAnalysis)
    /\ HasFields(d, {"ingredients"}, IngredientList)
    /\ HasFields(d, {"recipes"}, RecipeList)

RecipeGenerationSuccessful == "Recipe generation successful."

\* APIResponse(data=grok_parsed_response) as it is sent
APIResponse(d) ==
    [status_code |-> 200, detail |-> <<>>,
     data |-> Dict(<<Key("image_analysis"), Get(d, "image_analysis", Absent),
                     Key("ingredients"), Get(d, "ingredients", Absent),
                     Key("recipes"), Get(d, "recipes", Absent)>>),
     message |-> RecipeGenerationSuccessful]

\* what a call ends with: a value, an HTTPException, or another exception
Returned(v) == [kind |-> "return", status_code |-> 0, detail |-> <<>>, value |-> v]
HTTPException(status_code, detail) ==
    [kind |-> "HTTPException", status_code |-> status_code, detail |-> detail, value |-> Absent]
Exception(e) == [kind |-> "Exception", status_code |-> 0, detail |-> <<e>>, value |-> Absent]

\* the error response FastAPI sends for an HTTPException
ErrorReply(e) ==
    [status_code |-> e.status_code, detail |-> e.detail, data |-> Absent, message |-> ""]

HTTP_401_UNAUTHORIZED == 401
HTTP_500_INTERNAL_SERVER_ERROR == 500
HTTP_503_SERVICE_UNAVAILABLE == 503

ApiKeys == {"missing", "wrong", "valid"}

\* the error statuses and texts of the provider
ProviderStatuses == {400, 401, 429, 500, 503}
ProviderTexts == {"", "rate limit exceeded"}

\* how the call of the provider can go: no key on the server, no connection
\* or a timeout, an error status, a 200 whose body is no JSON, has no
\* choices, has no content, or has the content `response`
ProviderAnswers ==
    {[kind |-> k, status_code |-> 0, text |-> ""] : k \in {"unconfigured", "request_error"}}
    \cup {[kind |-> "status", status_code |-> c, text |-> t] :
             c \in ProviderStatuses, t \in ProviderTexts}
    \cup {[kind |-> k, status_code |-> 200, text |-> ""] :
             k \in {"not_json", "no_choices", "no_content", "content"}}

get_app_api_key(api_key) ==
    IF api_key # "valid"
    THEN HTTPException(HTTP_401_UNAUTHORIZED, <<"Invalid or missing X-App-API-Key header">>)
    ELSE Returned(Absent)

call_grok_vision_api(answer, content) ==
    CASE answer.kind = "unconfigured" ->
            HTTPException(HTTP_500_INTERNAL_SERVER_ERROR, <<"API key not configured on server.">>)
      [] answer.kind = "request_error" ->
            HTTPException(HTTP_503_SERVICE_UNAVAILABLE, <<"Failed to connect to Grok API: ", "">>)
      [] answer.kind = "status" ->
            HTTPException(answer.status_code, <<"Grok API error: ", answer.text>>)
      [] answer.kind = "not_json" ->
            \* the handler of JSONDecodeError prints llm_content_str, not yet bound
            Exception("UnboundLocalError")
      [] answer.kind = "no_choices" ->
            HTTPException(HTTP_500_INTERNAL_SERVER_ERROR,
                          <<"An unexpected error occurred: ", "IndexError">>)
      [] answer.kind = "no_content" ->
            HTTPException(HTTP_500_INTERNAL_SERVER_ERROR,
                          <<"An unexpected error occurred: ", "ValueError">>)
      [] answer.kind = "content" ->
            IF content = <<>>
            THEN HTTPException(HTTP_500_INTERNAL_SERVER_ERROR,
                               <<"An unexpected error occurred: ", "ValueError">>)
            ELSE IF JsonLoads(content).ok THEN Returned(JsonLoads(content).val)
            ELSE HTTPException(HTTP_500_INTERNAL_SERVER_ERROR,
                               <<"Invalid JSON response from Grok API: ", "JSONDecodeError">>)

UnexpectedServerError(e) ==
    HTTPException(HTTP_500_INTERNAL_SERVER_ERROR, <<"An unexpected server error occurred: ", e>>)

\* an endpoint whose handler turns every failure into its own 500
RewrapAll(called) ==
    IF called.kind = "return" /\ GrokParsedResponse(called.value)
    THEN APIResponse(called.value)
    ELSE ErrorReply(UnexpectedServerError("error"))

\* the body of the endpoint, given how call_grok_vision_api ended
analyze_fridge_image(called) ==
    CASE called.kind = "HTTPException" -> ErrorReply(called)
      [] called.kind = "Exception" -> ErrorReply(UnexpectedServerError(called.detail[1]))
      [] called.kind = "return" ->
            IF called.value.t # "dict" THEN ErrorReply(UnexpectedServerError("TypeError"))
            ELSE IF ~GrokParsedResponse(called.value)
            THEN ErrorReply(UnexpectedServerError("ValidationError"))
            ELSE APIResponse(called.value)

\* the documents of the proxy's prompt
WireAnalysis ==
    Dict(<<Key("is_food_image"), PyTrue, Key("confidence"), Key("high"),
           Key("image_description"), Key("fridge")>>)

WireIngredient(shape) ==
    Dict(<<Key("name"), Key("eggs"), Key("quantity"), Key("6"), Key("unit"), Key("pieces"),
           Key("category"), Key("dairy")>>
         \o (IF shape = "stale" THEN <<>> ELSE <<Key("freshness"), Key("fresh")>>))

WireRecipe(shape) ==
    Dict(<<Key("name"), Key("omelette"), Key("description"), Key("quick"),
           Key("difficulty"), Key("easy"),
           Key("instructions"), List(<<Key("Beat"), Key("Fry")>>)>>
         \o (CASE shape = "nutrition" -> <<Key("nutrition"), Dict(<<Key("calories"), Num("400")>>)>>
               [] shape = "nutrition_na" -> <<Key("nutrition"), Dict(<<Key("calories"), Key("N/A")>>)>>
               [] OTHER -> <<>>))

WireDoc(ings, recs) ==
    Dict(<<Key("image_analysis"), WireAnalysis, Key("ingredients"), ings, Key("recipes"), recs>>)

WireDocs ==
    {WireDoc(ings, recs) :
        ings \in {EmptyList, List(<<WireIngredient("fresh")>>), List(<<WireIngredient("stale")>>)},
        recs \in {EmptyList} \cup {List(<<WireRecipe(sh)>>) : sh \in {"plain", "nutrition", "nutrition_na"}}}
    \cup {Dict(<<Key("ingredients"), EmptyList, Key("recipes"), EmptyList>>)}
    \cup OtherDocs

ServerInit == Sent(WireDocs)

\* a client posts the form with an X-App-API-Key header, or without one
Post ==
    /\ request.stage = "none"
    /\ \E k \in ApiKeys : request' = [api_key |-> k, stage |-> "received"]
    /\ UNCHANGED <<provider, reply>>
    /\ UNCHANGED <<responseVars, cacheVars, history, pageVars, deviceVars>>

\* the dependency of the endpoint
GetAppApiKey ==
    /\ request.stage = "received"
    /\ LET checked == get_app_api_key(request.api_key)
       IN  IF checked.kind = "HTTPException"
           THEN /\ reply' = ErrorReply(checked)
                /\ request' = [request EXCEPT !.stage = "answered"]
           ELSE /\ reply' = reply
                /\ request' = [request EXCEPT !.stage = "authorized"]
    /\ UNCHANGED provider
    /\ UNCHANGED <<responseVars, cacheVars, history, pageVars, deviceVars>>

\* the endpoint: the call of the provider, the validation, the response
AnalyzeFridgeImage ==
    /\ request.stage = "authorized"
    /\ \E answer \in ProviderAnswers :
          /\ provider' = answer
          /\ reply' = analyze_fridge_image(call_grok_vision_api(answer, response))
    /\ request' = [request EXCEPT !.stage = "answered"]
    /\ UNCHANGED <<responseVars, cacheVars, history, pageVars, deviceVars>>

ServerNext == Post \/ GetAppApiKey \/ AnalyzeFridgeImage

ServerSpec == ServerInit /\ [][ServerNext]_vars

SuccessBody ==
    /\ reply.status_code = 200
    /\ reply.data.t = "dict"
    /\ KeysOf(reply.data) = <<"image_analysis", "ingredients", "recipes">>
    /\ reply.message # ""
    /\ reply.detail = <<>>

ErrorWithDetail ==
    /\ reply.status_code \in 400..599
    /\ reply.detail # <<>>
    /\ reply.data = Absent

C22_WitnessSuccess ==
    /\ request.stage = "answered" /\ SuccessBody
    /\ Len(Get(reply.data, "recipes", EmptyList).items) > 0

-----------------------------------------------------------------------------
(* generate_meals with its arguments *)

\* the ingredient lists a caller passes: what detect_ingredients returned,
\* what a model sent, or plain names
MealIngredients ==
    IngredientLists \cup CandidateLists
    \cup {List(<<Key("tofu"), Key("vegetables"), Key("rice")>>)}

\* dietary_preferences: None, or a list of strings
MealPreferences == {<<"None">>, <<>>, <<"vegan">>, <<"vegan", "gluten-free">>}

\* [ing['name'] for ing in ingredients] succeeds
AllNamed(ingredients) ==
    \A i \in 1..Len(ingredients.items) :
        ingredients.items[i].t = "dict" /\ HasKey(ingredients.items[i], "name")

\* generate_meals(ingredients, dietary_preferences): without a client the
\* arguments are not read; with one, the names are taken inside the try block
GenerateMealsFor(ingredients, dietary_preferences, how, content) ==
    IF how = "no_client" THEN generate_meals(how, content)
    ELSE IF ~AllNamed(ingredients) THEN EmptyList
    ELSE generate_meals(how, content)

MealsInit == Sent(OtherDocs)

GenerateMealsFrom ==
    \E ingredients \in MealIngredients, dietary_preferences \in MealPreferences,
       how \in CallOutcomes :
        /\ op = "none"
        /\ op' = "generate_meals"
        /\ outcome' = how
        /\ ret' = Value(GenerateMealsFor(ingredients, dietary_preferences, how, response))
        /\ call' = [args |-> <<ingredients, dietary_preferences>>, at |-> 0,
                    invoked |-> (how # "no_client"), result |-> <<>>]
        /\ UNCHANGED <<doc, style, D, response, cut, prefix, suffix>>
        /\ UNCHANGED <<memo, clock, done>>
        /\ UNCHANGED elsewhere

MealsNext == GenerateMealsFrom

MealsSpec == MealsInit /\ [][MealsNext]_vars

\* C23: when no model client is configured, generate_meals returns a
\* non-empty list of recipes for every ingredient list and every set of
\* dietary preferences.
C23_MockMealsWithoutClient ==
    (op = "generate_meals" /\ outcome = "no_client")
        => /\ ret.value.t = "list"
           /\ Len(ret.value.items) > 0
           /\ \A i \in 1..Len(ret.value.items) : HasName(ret.value.items[i])

\* called without a client, with the ingredients and the preferences of
\* test_generate_meals_with_preferences
C23_Witness ==
    /\ op = "generate_meals" /\ outcome = "no_client"
    /\ call.args = <<List(<<Key("tofu"), Key("vegetables"), Key("rice")>>),
                     <<"vegan", "gluten-free">>>>
    /\ Len(ret.value.items) = MealLimit

-----------------------------------------------------------------------------
(* The three extraction steps of parse_combined_response *)

\* ingredients with a nested array, and with brackets, braces, escaped quotes
\* and an escaped backslash inside a string
BracketShapes == {"plain", "noted", "alternatives", "bracketed"}

BracketItem(i, shape) ==
    CASE shape = "alternatives" ->
            Dict(<<Key("name"), Key(IngredientNames[i]),
                   Key("alternatives"), List(<<Key("milk"), EmptyList>>)>>)
      [] shape = "bracketed" ->
            Dict(<<Key("name"), Key(IngredientNames[i]),
                   Key("alternatives"), List(<<Key("milk"), EmptyList>>),
                   Key("location"), Str(<<"shelf", SP, "[", "{", Q, "top", Q, "}", "]", BS>>)>>)
      [] OTHER -> IngredientItem(i, shape)

BracketLists ==
    {List([i \in 1..n |-> BracketItem(i, IF i = n THEN shape ELSE "plain")]) :
        n \in 0..MaxIngredients, shape \in BracketShapes}

BracketDocs ==
    {CombinedDoc(ia, ings, recs) :
        ia \in ImageAnalyses, ings \in BracketLists, recs \in RecipeLists}

RecoveryInit == Sent(BracketDocs \cup OtherDocs)

RecoveryNext == ParseCombined \/ ParseCombinedArchive

RecoverySpec == RecoveryInit /\ [][RecoveryNext]_vars

\* the steps the archived parse_combined_response runs on a text, in order
ExtractionSteps(text) ==
    LET data == JsonLoads(text)
        json_match == ScopedMatch(text)
        scoped == JsonLoads(json_match.text)
    IN  IF data.ok THEN <<"strict">>
        ELSE IF json_match.found /\ scoped.ok THEN <<"strict", "scoped">>
        ELSE <<"strict", "scoped", "salvage">>

\* the [ of the ingredients token, and the ] the decoder finds for it
ArrayOpen(text) == Find(text, IngredientsPat, 1) + Len(IngredientsPat) - 1
CompleteArray(text) ==
    /\ Find(text, IngredientsPat, 1) > 0
    /\ ParseValue(text, ArrayOpen(text)).ok
ArrayClose(text) == ParseValue(text, ArrayOpen(text)).next - 1

\* ingredients_end of the scanner
IngredientsEnd(text) == ScanIngredientsEnd(text, ArrayOpen(text) + 1, 0, FALSE, FALSE)

ArchiveRan == op = "parse_combined_response_archive"

\* C24: bracket matching in truncated recovery.  Whenever the text after the
\* `"ingredients": [` token holds a syntactically complete array, the
\* ingredients_end of the scanner is the index of the ] that closes that
\* array: not an earlier ] of a nested array, and [, ], {, } and escaped
\* quotes inside string values neither change the depth nor end the string.
C24_BracketMatching ==
    (ArchiveRan /\ CompleteArray(response))
        => IngredientsEnd(response) = ArrayClose(response)

\* the number of units `unit` between i and j
RECURSIVE CountUnits(_, _, _, _)
CountUnits(s, unit, i, j) ==
    IF i > j THEN 0
    ELSE (IF s[i] = unit THEN 1 ELSE 0) + CountUnits(s, unit, i + 1, j)

\* the salvage ran on a cut text whose ingredients array holds a nested array
\* and a string with brackets, braces and an escaped quote
C24_Witness ==
    /\ ArchiveRan /\ Truncated
    /\ ExtractionSteps(response) = <<"strict", "scoped", "salvage">>
    /\ CompleteArray(response)
    /\ CountUnits(response, "]", ArrayOpen(response), ArrayClose(response)) >= 4
    /\ CountUnits(response, "{", ArrayOpen(response), ArrayClose(response)) >= 3
    /\ CountUnits(response, BS, ArrayOpen(response), ArrayClose(response)) >= 4
    /\ ret.ingredients = DocIngredients

WholeObject ==
    /\ JsonLoads(response).ok
    /\ JsonLoads(response).val.t = "dict"
    /\ \E k \in {"ingredients", "recipes", "image_analysis"} : HasKey(JsonLoads(response).val, k)

ScopedObject == JsonLoads(ScopedMatch(response).text)

\* C25: fallback ordering of the extraction.  When the whole response is a
\* JSON object with at least one of ingredients, recipes, image_analysis, the
\* function returns that object's three fields (absent ones as [], [], {})
\* and runs no later step; the scoped parse runs only after the strict parse
\* failed, and the truncated recovery only after the scoped parse failed.
C25_FallbackOrdering ==
    ArchiveRan
        => LET steps == ExtractionSteps(response)
               whole == JsonLoads(response)
           IN  /\ WholeObject
                    => /\ steps = <<"strict">>
                       /\ ret.kind = "dict"
                       /\ ret.ingredients = Get(whole.val, "ingredients", EmptyList)
                       /\ ret.recipes = Get(whole.val, "recipes", EmptyList)
                       /\ ret.image_analysis = Get(whole.val, "image_analysis", EmptyDict)
               /\ InSeq("scoped", steps) => ~whole.ok
               /\ steps = <<"strict", "scoped">>
                    => /\ ret.ingredients = Get(ScopedObject.val, "ingredients", EmptyList)
                       /\ ret.recipes = Get(ScopedObject.val, "recipes", EmptyList)
               /\ InSeq("salvage", steps)
                    => /\ ~whole.ok
                       /\ ~(ScopedMatch(response).found /\ ScopedObject.ok)
                       /\ ret = SalvageTruncated(response)

\* the strict parse returned a whole object on which the recovery would have
\* found less
C25_Witness ==
    /\ ArchiveRan /\ WholeObject
    /\ SalvageTruncated(response) # FailureMarker(response)
    /\ SalvageTruncated(response).recipes # ret.recipes

\* each later step ran on some response
C25_WitnessScoped ==
    ArchiveRan /\ ExtractionSteps(response) = <<"strict", "scoped">> /\ Truthy(ret.ingredients)

\* C26: the parse_combined_response the pipeline imports and the archived one
\* return identical results for every response string; in particular the
\* live one performs all three extraction steps.
C26_LiveEqualsArchive ==
    op \in ParseOps
        => parse_combined_response(response) = parse_combined_response_archive(response)

\* the two differ only where the archived one salvaged something
C26_EqualUnlessSalvaged ==
    (op \in ParseOps /\ SalvageTruncated(response) = FailureMarker(response))
        => parse_combined_response(response) = parse_combined_response_archive(response)

C26_EqualOnFirstTwoSteps ==
    (op \in ParseOps /\ ~InSeq("salvage", ExtractionSteps(response)))
        => parse_combined_response(response) = parse_combined_response_archive(response)

-----------------------------------------------------------------------------
(* Where validate_recipe_response takes its recipes from *)

RecipesValidatedWhole ==
    /\ op = "validate_recipe_response"
    /\ doc \in RecipeDocs
    /\ Whole /\ prefix = <<>> /\ suffix = <<>>
    /\ ret.value # None

\* the returned recipe is the normalized form of a candidate of the document
FromTheBatch(recipe) ==
    \E j \in 1..Len(DocBatch.items) :
        /\ ValidCandidate(DocBatch.items[j])
        /\ recipe = Normalized(DocBatch.items[j])

\* C27: every recipe validate_recipe_response returns is the normalized form
\* of an element of the response's recipes array, or of the top-level array
\* of a bare array of recipes; an array nested inside a recipe, such as
\* ingredients_used or instructions, is never taken as the recipe list.
C27_FromTheRecipeList ==
    RecipesValidatedWhole
        => \A i \in 1..Len(ret.value.items) : FromTheBatch(ret.value.items[i])

\* what does hold: the recipes returned for the object form {"recipes": [...]}
\* are its candidates
C27_ObjectForm ==
    (RecipesValidatedWhole /\ doc.t = "dict")
        => \A i \in 1..Len(ret.value.items) : FromTheBatch(ret.value.items[i])

\* and so are those of a bare array whose recipes hold no array
C27_WithoutNestedArrays ==
    (/\ RecipesValidatedWhole
     /\ \A j \in 1..Len(DocBatch.items) :
            \A k \in 1..Len(DocBatch.items[j].items) : DocBatch.items[j].items[k].t # "list")
        => \A i \in 1..Len(ret.value.items) : FromTheBatch(ret.value.items[i])

-----------------------------------------------------------------------------
(* The camera page and its worker thread (pages/camera_minimal_clean.py) *)

InitialProgress == 20
ProgressLimit == 80
ProgressStep == 2

\* the responses the page is shown with: recipes, no food, no object
CameraDocs ==
    {CombinedDoc(Dict(<<Key("is_food_image"), PyTrue>>),
                 List(<<IngredientItem(1, "plain")>>), List(<<RecipeItem(1, "flat")>>)),
     CombinedDoc(Dict(<<Key("is_food_image"), PyFalse>>), EmptyList, EmptyList),
     EmptyList}

CameraInit == Sent(CameraDocs) /\ Whole /\ prefix = <<>> /\ suffix = <<>>

\* api_thread.is_alive()
IsAlive == api_thread \in {"running", "returned", "put"}

\* api_thread = threading.Thread(target=api_call_thread); api_thread.start()
StartThread ==
    /\ page = "idle"
    /\ page' = "polling"
    /\ api_thread' = "running"
    /\ progress_value' = InitialProgress
    /\ UNCHANGED <<result_queue, page_result>>
    /\ UNCHANGED <<responseVars, cacheVars, history, serverVars, deviceVars>>

\* the worker: api_result = analyze_fridge_and_generate_recipes(...); an
\* exception leaving the function ends the thread
ApiCall ==
    /\ api_thread = "running"
    /\ \E how \in CallOutcomes :
          LET api_result == analyze_fridge_and_generate_recipes(how, response)
          IN  /\ op' = "analyze_fridge_and_generate_recipes"
              /\ outcome' = how
              /\ ret' = api_result
              /\ api_thread' = IF api_result.kind = "raise" THEN "terminated" ELSE "returned"
    /\ UNCHANGED <<doc, style, D, response, cut, prefix, suffix>>
    /\ UNCHANGED <<result_queue, page, progress_value, page_result>>
    /\ UNCHANGED <<cacheVars, history, serverVars, deviceVars>>

\* the worker: result_queue.put(api_result)
Put ==
    /\ api_thread = "returned"
    /\ result_queue' = Append(result_queue, ret)
    /\ api_thread' = "put"
    /\ UNCHANGED <<page, progress_value, page_result>>
    /\ UNCHANGED <<responseVars, cacheVars, history, serverVars, deviceVars>>

\* the worker: api_call_thread returns
Exit ==
    /\ api_thread = "put"
    /\ api_thread' = "terminated"
    /\ UNCHANGED <<result_queue, page, progress_value, page_result>>
    /\ UNCHANGED <<responseVars, cacheVars, history, serverVars, deviceVars>>

\* one round of `while api_thread.is_alive()`: the next message, the bar
Poll ==
    /\ page = "polling"
    /\ IsAlive
    /\ progress_value' = IF progress_value < ProgressLimit
                         THEN progress_value + ProgressStep ELSE progress_value
    /\ UNCHANGED <<api_thread, result_queue, page, page_result>>
    /\ UNCHANGED <<responseVars, cacheVars, history, serverVars, deviceVars>>

\* the loop ends
LeaveLoop ==
    /\ page = "polling"
    /\ ~IsAlive
    /\ page' = "getting"
    /\ UNCHANGED <<api_thread, result_queue, progress_value, page_result>>
    /\ UNCHANGED <<responseVars, cacheVars, history, serverVars, deviceVars>>

\* len(result.get(key, []))
PyLen(v) == IF v.t = "list" THEN Len(v.items) ELSE IF v.t = "dict" THEN Len(v.items) \div 2 ELSE Len(v.s)

\* 'error' in result or (no ingredients and no recipes); a value without a
\* length raises TypeError, which the page's except clause turns into an error
ShowsError(api_result) ==
    \/ api_result.error # Absent
    \/ \E v \in {api_result.ingredients, api_result.recipes} : v.t \in {"num", "lit"}
    \/ PyLen(api_result.ingredients) = 0 /\ PyLen(api_result.recipes) = 0

\* result = result_queue.get(), blocking, and what the page does with it
GetResult ==
    /\ page = "getting"
    /\ result_queue # <<>>
    /\ page_result' = Head(result_queue)
    /\ result_queue' = Tail(result_queue)
    /\ page' = IF ShowsError(Head(result_queue)) THEN "error" ELSE "results"
    /\ UNCHANGED <<api_thread, progress_value>>
    /\ UNCHANGED <<responseVars, cacheVars, history, serverVars, deviceVars>>

Worker == ApiCall \/ Put \/ Exit
CameraPage == StartThread \/ Poll \/ LeaveLoop \/ GetResult

CameraNext == Worker \/ CameraPage

ThreadStates == {"unstarted", "running", "returned", "put", "terminated"}

\* the worker thread, while alive, takes its next step: exactly the steps of
\* Worker, each of which moves api_thread on
WorkerRuns == IsAlive /\ api_thread' \in ThreadStates \ {api_thread}

\* the script runs on; the thread is scheduled, and the model call returns or
\* raises (the client has a timeout)
CameraSpec ==
    CameraInit /\ [][CameraNext]_vars /\ WF_api_thread(WorkerRuns) /\ WF_vars(CameraPage)

OneResultWhenTerminated ==
    (api_thread = "terminated" /\ page \in {"polling", "getting"})
        => Len(result_queue) = 1

PageDone == page \in {"error", "results"}

\* C28: no deadlock in the background-thread variant.  In every
\* interleaving and for every outcome of the worker, exactly one result is on
\* the queue when the worker has terminated, so the blocking get() returns
\* and the page reaches the error state or the results state.
C28_NoDeadlock == []OneResultWhenTerminated /\ <>PageDone

\* the worker caught an upstream error, put its result and ended while the
\* page was still polling
C28_Witness ==
    /\ api_thread = "terminated" /\ page = "polling"
    /\ outcome = "raises"
    /\ Len(result_queue) = 1 /\ HasError(result_queue[1])

C28_WitnessError == page = "error" /\ outcome = "raises" /\ HasError(page_result)

C28_WitnessResults == page = "results" /\ Truthy(page_result.recipes)

-----------------------------------------------------------------------------
(* Retries through the memo: the decorated analyze_fridge_and_generate_recipes *)

RetryInit == Sent(CameraDocs) /\ Whole /\ prefix = <<>> /\ suffix = <<>>

\* a call whose entry is fresh: the stored result, the body does not run
RetryHit ==
    /\ Len(history) < MaxCalls
    /\ \E a \in Arguments :
          /\ Fresh(memo[CacheKey(a[1], a[2])])
          /\ call' = [args |-> a, at |-> clock, invoked |-> FALSE,
                      result |-> memo[CacheKey(a[1], a[2])].value]
          /\ history' = Append(history, call')
    /\ UNCHANGED <<memo, clock, done>>
    /\ UNCHANGED <<responseVars, serverVars, pageVars, deviceVars>>

\* a call without a fresh entry: the body runs, the model is asked, and what
\* the body returns is stored, an error result like any other
RetryMiss ==
    /\ Len(history) < MaxCalls
    /\ \E a \in Arguments, how \in CallOutcomes :
          LET result == analyze_fridge_and_generate_recipes(how, response)
          IN  /\ ~Fresh(memo[CacheKey(a[1], a[2])])
              /\ result.kind # "raise"
              /\ memo' = [memo EXCEPT ![CacheKey(a[1], a[2])] = Store(result, clock)]
              /\ done' = [done EXCEPT ![a] = clock]
              /\ call' = [args |-> a, at |-> clock, invoked |-> TRUE, result |-> result]
              /\ history' = Append(history, call')
              /\ op' = "analyze_fridge_and_generate_recipes"
              /\ outcome' = how
              /\ ret' = result
    /\ UNCHANGED <<doc, style, D, response, cut, prefix, suffix, clock>>
    /\ UNCHANGED <<serverVars, pageVars, deviceVars>>

RetryNext == RetryHit \/ RetryMiss \/ Tick

RetrySpec == RetryInit /\ [][RetryNext]_vars

\* call j is a retry of call i: later, with the same (image, preferences),
\* before the entry of call i expires
RetryOf(i, j) ==
    /\ i < j
    /\ history[j].args = history[i].args
    /\ history[j].at < history[i].at + ttl

UpstreamErrorAt(i) ==
    /\ history[i].invoked
    /\ HasError(history[i].result)

\* C29: error results are memoized.  A call that ended in an error of the
\* model call holds that error as its result, and every later call with the
\* same (image, preferences) within the ttl returns the same error without the
\* body, and so the model, being invoked again.
C29_ErrorResultsMemoized ==
    \A i \in 1..Len(history) :
        /\ (history[i].invoked /\ i = Len(history) /\ outcome = "raises")
               => HasError(history[i].result)
        /\ \A j \in 1..Len(history) :
               (UpstreamErrorAt(i) /\ RetryOf(i, j))
                   => /\ ~history[j].invoked
                      /\ history[j].result = history[i].result

\* the model call raised, and the retry half an hour later got the same error
\* from the memo
C29_Witness ==
    /\ Len(history) = 2
    /\ UpstreamErrorAt(1) /\ RetryOf(1, 2)
    /\ history[1].result.error = ErrorAnalyzing(UpstreamError)
    /\ history[2].at > history[1].at
    /\ ~history[2].invoked

\* once the entry has expired the retry reaches the model
C29_WitnessExpired ==
    /\ Len(history) = 2
    /\ UpstreamErrorAt(1)
    /\ history[2].args = history[1].args
    /\ history[2].at >= history[1].at + ttl
    /\ history[2].invoked

-----------------------------------------------------------------------------
(* Free uses per device (webapp-archive/utils/device_fingerprint.py) *)

DefaultFreeUses == 3
Unlimited == -1

DeviceInit == CacheInit

NewDevice == [seen |-> TRUE, uses_remaining |-> DefaultFreeUses, total_uses |-> 0,
              is_authenticated |-> FALSE, user_id |-> ""]

\* st.session_state.device_tracking after check_free_uses(device_id): the key
\* and the record of the device are created when missing
check_free_uses(tracking, device_id) ==
    [present |-> TRUE,
     devices |-> IF tracking.devices[device_id].seen THEN tracking.devices
                 ELSE [tracking.devices EXCEPT ![device_id] = NewDevice]]

CheckFreeUses ==
    \E device_id \in Devices :
        /\ device_tracking' = check_free_uses(device_tracking, device_id)
        /\ op' = "check_free_uses"
        /\ outcome' = "returned"
        /\ UNCHANGED <<doc, style, D, response, cut, prefix, suffix, ret>>
        /\ UNCHANGED <<cacheVars, history, serverVars, pageVars, decrement>>

\* decrement_free_use(device_id): True and one use counted while
\* uses_remaining > 0, False otherwise
DecrementFreeUse ==
    \E device_id \in Devices :
        LET checked == check_free_uses(device_tracking, device_id)
            device_data == checked.devices[device_id]
        IN  /\ IF device_data.uses_remaining > 0
               THEN /\ device_tracking' =
                          [checked EXCEPT !.devices[device_id] =
                              [device_data EXCEPT !.uses_remaining = @ - 1,
                                                  !.total_uses = @ + 1]]
                    /\ decrement' = [device_id |-> device_id, before |-> device_data,
                                     returned |-> TRUE]
               ELSE /\ device_tracking' = checked
                    /\ decrement' = [device_id |-> device_id, before |-> device_data,
                                     returned |-> FALSE]
            /\ op' = "decrement_free_use"
            /\ outcome' = "returned"
            /\ UNCHANGED <<doc, style, D, response, cut, prefix, suffix, ret>>
            /\ UNCHANGED <<cacheVars, history, serverVars, pageVars>>

\* link_device_to_user(device_id, user_id): reads the device_tracking
\* attribute of the session state (AttributeError when it was never set) and
\* marks a known device
LinkDeviceToUser ==
    \E device_id \in Devices, user_id \in Users :
        /\ IF ~device_tracking.present
           THEN outcome' = "AttributeError" /\ UNCHANGED device_tracking
           ELSE /\ outcome' = "returned"
                /\ device_tracking' =
                      IF device_tracking.devices[device_id].seen
                      THEN [device_tracking EXCEPT !.devices[device_id] =
                              [@ EXCEPT !.is_authenticated = TRUE,
                                        !.user_id = user_id,
                                        !.uses_remaining = Unlimited]]
                      ELSE device_tracking
        /\ op' = "link_device_to_user"
        /\ UNCHANGED <<doc, style, D, response, cut, prefix, suffix, ret>>
        /\ UNCHANGED <<cacheVars, history, serverVars, pageVars, decrement>>

DeviceNext == CheckFreeUses \/ DecrementFreeUse \/ LinkDeviceToUser

DeviceSpec == DeviceInit /\ [][DeviceNext]_vars

Decremented == decrement.device_id # ""

\* the accounting of the devices that are not linked to a user
UnlinkedAccounting ==
    /\ \A d \in Devices :
          (device_tracking.devices[d].seen /\ ~device_tracking.devices[d].is_authenticated)
              => /\ device_tracking.devices[d].uses_remaining \in 0..DefaultFreeUses
                 /\ device_tracking.devices[d].uses_remaining
                        + device_tracking.devices[d].total_uses = DefaultFreeUses
    /\ (Decremented /\ ~decrement.before.is_authenticated)
          => (decrement.returned <=> decrement.before.uses_remaining > 0)

\* C30: free-use accounting per device.  For a device not linked to a user
\* uses_remaining stays in 0..3, uses_remaining + total_uses = 3, and a
\* decrement_free_use call returns True exactly when uses_remaining was > 0
\* before it; after link_device_to_user every decrement_free_use call on the
\* device returns True.
C30_FreeUseAccounting ==
    /\ UnlinkedAccounting
    /\ (Decremented /\ decrement.before.is_authenticated) => decrement.returned

\* the half of C30 about unlinked devices, which the code keeps
C30_UnlinkedAccounting == UnlinkedAccounting /\ (op = "none" => ~Decremented)

\* a linked device is refused, with free uses left before the link or without
C30_LinkedRefused ==
    (Decremented /\ decrement.before.is_authenticated)
        => /\ ~decrement.returned
           /\ decrement.before.uses_remaining = Unlimited

C30_WitnessExhausted ==
    /\ Decremented /\ ~decrement.before.is_authenticated
    /\ decrement.before.uses_remaining = 0 /\ decrement.before.total_uses = DefaultFreeUses
    /\ ~decrement.returned

C30_WitnessLinked ==
    /\ Decremented /\ decrement.before.is_authenticated
    /\ decrement.before.total_uses = 1

=============================================================================
